---------------------------- MODULE Spec2Model ----------------------------
(***************************************************************************)
(* A model of the product-record pipeline of the scrapper repository:      *)
(* src/src/processing/normalizer.py (DataNormalizer, ProductDeduplicator,  *)
(* CurationEngine) and the handlers of src/main.py that call it.           *)
(*                                                                         *)
(* Representation.                                                         *)
(*  - A Python str is a sequence of one-character strings, so that the     *)
(*    character-level code (strip, regular expressions, lower, difflib)    *)
(*    is computed and not assumed.  Names, actions and dict keys, which    *)
(*    the code only compares for equality, are TLA+ strings.               *)
(*  - A Python dict is a function whose DOMAIN is its key set; a missing   *)
(*    key is a key outside the DOMAIN.                                     *)
(*  - A Python float is an exact rational [n |-> .., d |-> ..] in lowest  *)
(*    terms, d > 0 (the weights 0.4, 0.3, 0.2, 0.1 are 2/5, 3/10, 1/5,     *)
(*    1/10 and the threshold 0.85 is 17/20).                               *)
(*  - None, for the optional numeric fields, is the value None below; the  *)
(*    numeric fields themselves are never negative.                        *)
(*  - A list of dict objects returned by a function that selects among its *)
(*    argument's elements is a list of 1-based indices into the argument:  *)
(*    the index is the object's identity.                                  *)
(***************************************************************************)
EXTENDS Integers, Sequences, FiniteSets, TLC

VARIABLES
    pc,             \* which operation has run on the current inputs
    deduplicator,   \* the ProductDeduplicator object's attributes
    fd_products,    \* find_duplicates: the argument list
    fd_result,      \* find_duplicates: the returned list of groups
    md_group,       \* merge_duplicates: the member objects of the argument list
    md_call,        \* merge_duplicates: the members as they were at the call
    md_merged,      \* merge_duplicates: the returned record
    curation_engine,\* the CurationEngine object's attributes
    cu_products,    \* apply_curation_rules: the record objects of the argument
    cu_call,        \* apply_curation_rules: the records as they were at the call
    cu_rules,       \* apply_curation_rules: the rules argument, {} for None
    cu_evaluations, \* apply_curation_rules: curation_result of each iteration
    cu_curated,     \* apply_curation_rules: the returned list
    qs_product,     \* calculate_quality_score: the argument
    qs_change,      \* a scored field of the argument and a value for it
    qs_score,       \* calculate_quality_score: the value returned
    qs_changed,     \* the value returned for the argument with the change made
    ex_page,        \* the fetched product page: selector -> text of its element
    ex_product,     \* scrape_amazon_product: the product_data returned
    pp_result,      \* _parse_product_page: the dict returned or the exception
    nm_text,        \* the text argument of a normalizer or text helper
    nm_specs,       \* normalize_specifications: the items of the argument
    nm_result,      \* the operation called on them and the value returned
    ss_max_pages,   \* scrape_search_results: the max_pages argument
    ss_page,        \* scrape_search_results: the page of the loop
    ss_product_urls,\* scrape_search_results: the urls of the page still to scrape
    ss_results,     \* scrape_search_results: the results list
    ss_fetched,     \* what each listing page fetched so far gave: its urls or {}
    ss_served,      \* what each product request made so far gave: url, content
    mc_products,    \* monitor_price_changes: products_to_update[:10]
    mc_index,       \* monitor_price_changes: the record of the loop
    mc_changes,     \* monitor_price_changes: the price_changes stored
    mc_scraped,     \* what the scraper function gave for each record reached
    mr_at,          \* _make_request: where each call of it is
    mr_result,      \* _make_request: what each call returned, if it has
    semaphore,      \* the scraper's semaphore: its number of free permits
    session,        \* the scraper's session: TRUE once created
    products_db,    \* main.py: the catalog, in the order of the dict
    price_changes,  \* main.py: the price changes stored, oldest first
    pm_loops,       \* the schedule_price_monitoring tasks and where each is
    pm_starts,      \* the calls of start_price_monitoring still to come
    pm_cycles       \* the cycles still followed, -1 when all are

dedup_vars == <<deduplicator, fd_products, fd_result>>
merge_vars == <<md_group, md_call, md_merged>>
curate_vars ==
    <<curation_engine, cu_products, cu_call, cu_rules, cu_evaluations,
      cu_curated>>

quality_vars == <<qs_product, qs_change, qs_score, qs_changed>>
extract_vars == <<ex_page, ex_product, pp_result>>
normalize_vars == <<nm_text, nm_specs, nm_result>>
search_vars ==
    <<ss_max_pages, ss_page, ss_product_urls, ss_results, ss_fetched, ss_served>>
monitor_vars == <<mc_products, mc_index, mc_changes, mc_scraped>>
request_vars == <<mr_at, mr_result, semaphore, session>>
monitoring_vars == <<products_db, price_changes, pm_loops, pm_starts, pm_cycles>>
later_vars ==
    <<normalize_vars, search_vars, monitor_vars, request_vars, monitoring_vars>>
others_vars == <<quality_vars, extract_vars, later_vars>>

vars ==
    <<pc, dedup_vars, merge_vars, curate_vars, quality_vars, extract_vars,
      later_vars>>

(***************************************************************************)
(* Bounds of the model.                                                    *)
(***************************************************************************)
MaxProducts == 4
MaxGroup == 3

(***************************************************************************)
(* Python values.                                                          *)
(***************************************************************************)
None == -1

\* bool(x) of an optional number: None and 0 are falsy.
TruthyNum(x) == x # None /\ x # 0

\* dict.get(key, default)
Get(d, key, default) == IF key \in DOMAIN d THEN d[key] ELSE default

\* d[key] = value
Put(d, key, value) ==
    [k \in DOMAIN d \cup {key} |-> IF k = key THEN value ELSE d[k]]

EmptyDict == [k \in {} |-> <<>>]

\* The elements of a finite set of integers, ascending.
RECURSIVE SortedSeq(_)
SortedSeq(S) ==
    IF S = {} THEN <<>>
    ELSE LET m == CHOOSE x \in S : \A y \in S : x <= y
         IN <<m>> \o SortedSeq(S \ {m})

Range(s) == {s[i] : i \in 1..Len(s)}

(***************************************************************************)
(* Exact rationals for Python floats.                                      *)
(***************************************************************************)
Abs(x) == IF x < 0 THEN -x ELSE x

RECURSIVE GCD(_, _)
GCD(a, b) == IF b = 0 THEN a ELSE GCD(b, a % b)

Rat(n, d) == LET g == GCD(Abs(n), d) IN [n |-> n \div g, d |-> d \div g]
RZero == Rat(0, 1)
ROne == Rat(1, 1)
RNeg(x) == [n |-> -x.n, d |-> x.d]
RAdd(x, y) == Rat(x.n * y.d + y.n * x.d, x.d * y.d)
RMul(x, y) == Rat(x.n * y.n, x.d * y.d)
RGe(x, y) == x.n * y.d >= y.n * x.d
RLt(x, y) == ~RGe(x, y)

\* sum() of a list of rationals
RECURSIVE RSum(_)
RSum(s) == IF s = <<>> THEN RZero ELSE RAdd(Head(s), RSum(Tail(s)))

(***************************************************************************)
(* Characters.                                                             *)
(***************************************************************************)
UpperCase == <<"A","B","C","D","E","F","G","H","I","J","K","L","M",
               "N","O","P","Q","R","S","T","U","V","W","X","Y","Z">>
LowerCase == <<"a","b","c","d","e","f","g","h","i","j","k","l","m",
               "n","o","p","q","r","s","t","u","v","w","x","y","z">>

\* str.lower(), one character
LowerChar(c) ==
    IF \E i \in 1..26 : UpperCase[i] = c
    THEN LowerCase[CHOOSE i \in 1..26 : UpperCase[i] = c]
    ELSE c

\* str.lower()
RECURSIVE Lower(_)
Lower(s) == IF s = <<>> THEN <<>> ELSE <<LowerChar(Head(s))>> \o Lower(Tail(s))

\* the characters \s matches, of those the model's strings use
Whitespace == {" ", "\t"}

\* str.strip()
RECURSIVE LStrip(_)
LStrip(s) ==
    IF s # <<>> /\ Head(s) \in Whitespace THEN LStrip(Tail(s)) ELSE s

RECURSIVE RStrip(_)
RStrip(s) ==
    IF s # <<>> /\ s[Len(s)] \in Whitespace
    THEN RStrip(SubSeq(s, 1, Len(s) - 1))
    ELSE s

Strip(s) == RStrip(LStrip(s))

\* re.sub(r'\s+', ' ', s): every maximal run of whitespace becomes one space
RECURSIVE CollapseWhitespace(_)
CollapseWhitespace(s) ==
    IF s = <<>> THEN <<>>
    ELSE IF Head(s) \in Whitespace
         THEN <<" ">> \o CollapseWhitespace(LStrip(s))
         ELSE <<Head(s)>> \o CollapseWhitespace(Tail(s))

(***************************************************************************)
(* DataNormalizer.normalize_title                                          *)
(***************************************************************************)
\* re.sub('^<literal>', '', s, flags=re.IGNORECASE); literal is lower case
StripLiteralPrefix(s, literal) ==
    IF Len(s) >= Len(literal) /\ Lower(SubSeq(s, 1, Len(literal))) = literal
    THEN SubSeq(s, Len(literal) + 1, Len(s))
    ELSE s

\* re.sub(r'^\[.*?\] ', '', s) and re.sub(r'^\(.*?\) ', '', s): an opening
\* bracket at the start, the shortest text up to a closing bracket that a
\* space follows.
StripBracketPrefix(s, open, close) ==
    LET ends == {k \in 2..(Len(s) - 1) : s[k] = close /\ s[k + 1] = " "}
    IN IF s # <<>> /\ s[1] = open /\ ends # {}
       THEN LET k == CHOOSE x \in ends : \A y \in ends : x <= y
            IN SubSeq(s, k + 2, Len(s))
       ELSE s

prefixes_to_remove ==
    << <<"a","m","a","z","o","n",".","c","o","m",":"," ">>,
       <<"w","a","l","m","a","r","t",".","c","o","m",":"," ">>,
       <<"t","a","r","g","e","t",".","c","o","m",":"," ">>,
       <<"b","e","s","t"," ","b","u","y",":"," ">> >>

RECURSIVE StripLiteralPrefixes(_, _)
StripLiteralPrefixes(s, i) ==
    IF i > Len(prefixes_to_remove) THEN s
    ELSE StripLiteralPrefixes(StripLiteralPrefix(s, prefixes_to_remove[i]), i + 1)

normalize_title(title) ==
    IF title = <<>> THEN <<>>
    ELSE LET normalized == CollapseWhitespace(Strip(title))
             literal == StripLiteralPrefixes(normalized, 1)
             square == StripBracketPrefix(literal, "[", "]")
             round == StripBracketPrefix(square, "(", ")")
         IN Strip(round)

(***************************************************************************)
(* difflib.SequenceMatcher(None, a, b).ratio(), without junk (isjunk is    *)
(* None, and the automatic junk heuristic needs len(b) >= 200).            *)
(***************************************************************************)
\* find_longest_match: [i, j, k] with a[i..i+k-1] = b[j..j+k-1], k maximal,
\* then i minimal, then j minimal; k = 0 when nothing matches.
find_longest_match(a, b) ==
    LET blocks == {t \in (1..Len(a)) \X (1..Len(b)) \X (1..Len(a)) :
                      /\ t[1] + t[3] - 1 <= Len(a)
                      /\ t[2] + t[3] - 1 <= Len(b)
                      /\ SubSeq(a, t[1], t[1] + t[3] - 1)
                           = SubSeq(b, t[2], t[2] + t[3] - 1)}
    IN IF blocks = {} THEN [i |-> 1, j |-> 1, k |-> 0]
       ELSE LET best == CHOOSE t \in blocks : \A u \in blocks :
                          \/ t[3] > u[3]
                          \/ t[3] = u[3] /\ t[1] < u[1]
                          \/ t[3] = u[3] /\ t[1] = u[1] /\ t[2] <= u[2]
            IN [i |-> Head(best), j |-> Head(Tail(best)), k |-> Head(Tail(Tail(best)))]

\* get_matching_blocks: the total size of the blocks, the longest match
\* first and then recursively the pieces to its left and to its right.
RECURSIVE matching_size(_, _)
matching_size(a, b) ==
    IF a = <<>> \/ b = <<>> THEN 0
    ELSE LET m == find_longest_match(a, b)
         IN IF m.k = 0 THEN 0
            ELSE m.k
                 + matching_size(SubSeq(a, 1, m.i - 1), SubSeq(b, 1, m.j - 1))
                 + matching_size(SubSeq(a, m.i + m.k, Len(a)),
                                 SubSeq(b, m.j + m.k, Len(b)))

\* ratio(): 2.0 * matches / (len(a) + len(b)), 1.0 when both are empty
ratio(a, b) ==
    IF Len(a) + Len(b) = 0 THEN ROne
    ELSE Rat(2 * matching_size(a, b), Len(a) + Len(b))

(***************************************************************************)
(* ProductDeduplicator                                                     *)
(***************************************************************************)
ProductDeduplicator_init ==
    [similarity_threshold |-> Rat(85, 100),
     title_weight |-> Rat(4, 10),
     brand_weight |-> Rat(3, 10),
     price_weight |-> Rat(2, 10),
     spec_weight |-> Rat(1, 10)]

text_similarity(text1, text2) ==
    IF text1 = <<>> \/ text2 = <<>> THEN RZero
    ELSE ratio(Lower(normalize_title(text1)), Lower(normalize_title(text2)))

Max(x, y) == IF x >= y THEN x ELSE y

price_similarity(price1, price2) ==
    IF ~TruthyNum(price1) \/ ~TruthyNum(price2) THEN RZero
    ELSE LET diff == Rat(Abs(price1 - price2), Max(price1, price2))
             sim == RAdd(ROne, RNeg(diff))
         IN IF RGe(sim, RZero) THEN sim ELSE RZero

\* sum(similarities) over the common keys
RECURSIVE SumOverKeys(_, _, _)
SumOverKeys(keys, specs1, specs2) ==
    IF keys = {} THEN RZero
    ELSE LET key == CHOOSE k \in keys : TRUE
         IN RAdd(text_similarity(specs1[key], specs2[key]),
                 SumOverKeys(keys \ {key}, specs1, specs2))

specifications_similarity(specs1, specs2) ==
    IF DOMAIN specs1 = {} \/ DOMAIN specs2 = {} THEN RZero
    ELSE LET common_keys == DOMAIN specs1 \cap DOMAIN specs2
         IN IF common_keys = {} THEN RZero
            ELSE RMul(SumOverKeys(common_keys, specs1, specs2),
                      Rat(1, Cardinality(common_keys)))

calculate_similarity(self, product1, product2) ==
    LET title_sim == text_similarity(Get(product1, "title", <<>>),
                                     Get(product2, "title", <<>>))
        brand_sim == text_similarity(Get(product1, "brand", <<>>),
                                     Get(product2, "brand", <<>>))
        price_sim == price_similarity(Get(product1, "current_price", None),
                                      Get(product2, "current_price", None))
        spec_sim == specifications_similarity(
                        Get(product1, "specifications", EmptyDict),
                        Get(product2, "specifications", EmptyDict))
    IN RSum(<<RMul(title_sim, self.title_weight),
              RMul(brand_sim, self.brand_weight),
              RMul(price_sim, self.price_weight),
              RMul(spec_sim, self.spec_weight)>>)

\* Mutant: the comparison is strict.
is_duplicate_strict(self, similarity) ==
    ~RGe(self.similarity_threshold, similarity)

\* line 240: similarity >= self.similarity_threshold
is_duplicate(self, similarity) == RGe(similarity, self.similarity_threshold)

\* Mutant: a candidate is compared with the group's latest member.
compared_product_latest(products, i, duplicate_group) ==
    products[duplicate_group[Len(duplicate_group)]]

\* line 239: the record every candidate of a group is compared with
compared_product(products, i, duplicate_group) == products[i]

\* Mutant: a grouped record is not marked.
mark_processed_never(processed, j) == processed

\* line 242: processed.add(j)
mark_processed(processed, j) == processed \cup {j}

\* line 244: a group is kept when it has more than one member
keeps_group(duplicate_group) == Len(duplicate_group) > 1

\* lines 235-242: the inner loop from j on, for the group of record i
RECURSIVE collect_group(_, _, _, _, _, _)
collect_group(self, products, i, j, duplicate_group, processed) ==
    IF j > Len(products)
    THEN [duplicate_group |-> duplicate_group, processed |-> processed]
    ELSE IF j \in processed
    THEN collect_group(self, products, i, j + 1, duplicate_group, processed)
    ELSE IF is_duplicate(self,
                calculate_similarity(self,
                    compared_product(products, i, duplicate_group), products[j]))
    THEN collect_group(self, products, i, j + 1,
                       Append(duplicate_group, j), mark_processed(processed, j))
    ELSE collect_group(self, products, i, j + 1, duplicate_group, processed)

\* lines 229-246: the outer loop from i on
RECURSIVE scan_products(_, _, _, _, _)
scan_products(self, products, i, duplicates, processed) ==
    IF i > Len(products) THEN duplicates
    ELSE IF i \in processed
    THEN scan_products(self, products, i + 1, duplicates, processed)
    ELSE LET inner == collect_group(self, products, i, i + 1, <<i>>, processed)
         IN IF keeps_group(inner.duplicate_group)
            THEN scan_products(self, products, i + 1,
                               Append(duplicates, inner.duplicate_group),
                               inner.processed \cup {i})
            ELSE scan_products(self, products, i + 1, duplicates, inner.processed)

\* The groups, each a list of indices into products.
find_duplicates(self, products) == scan_products(self, products, 1, <<>>, {})

(***************************************************************************)
(* CurationEngine.  A rating is in tenths of a star (4.0 is 40); a rule is *)
(* a record with name, condition, action and priority; a condition is a    *)
(* dict from predicate kind to its parameter; a reason is the sequence of  *)
(* the pieces the code concatenates.                                       *)
(***************************************************************************)
S_adult == <<"a", "d", "u", "l", "t">>
S_mature == <<"m", "a", "t", "u", "r", "e">>

CurationEngine_init ==
    [default_rules |->
        << [name |-> "minimum_rating",
            condition |-> [k \in {"min_rating"} |-> 40],
            action |-> "include", priority |-> 1],
           [name |-> "minimum_reviews",
            condition |-> [k \in {"min_reviews"} |-> 10],
            action |-> "include", priority |-> 2],
           [name |-> "in_stock_only",
            condition |-> [k \in {"availability"} |-> "in_stock"],
            action |-> "include", priority |-> 3],
           [name |-> "exclude_adult_content",
            condition |-> [k \in {"exclude_categories"} |-> <<S_adult, S_mature>>],
            action |-> "exclude", priority |-> 1] >>]

\* needle in haystack, for str
InStr(needle, haystack) ==
    \E i \in 0..(Len(haystack) - Len(needle)) :
        SubSeq(haystack, i + 1, i + Len(needle)) = needle

\* one iteration of the loop of _check_condition: FALSE where it returns False
check_key(product, key, value) ==
    IF key = "min_rating"
    THEN ~(~TruthyNum(Get(product, "rating", None)) \/ product["rating"] < value)
    ELSE IF key = "min_reviews"
    THEN ~(~TruthyNum(Get(product, "review_count", None))
            \/ product["review_count"] < value)
    ELSE IF key = "availability"
    THEN ~("availability" \notin DOMAIN product \/ product["availability"] # value)
    ELSE IF key = "exclude_categories"
    THEN LET category == Lower(Get(product, "category", <<>>))
         IN ~(\E e \in 1..Len(value) : InStr(value[e], category))
    ELSE TRUE

check_condition(product, condition) ==
    \A key \in DOMAIN condition : check_key(product, key, condition[key])

\* sorted(rules, key=priority): a stable sort, by insertion from the left
RECURSIVE insert_sorted(_, _)
insert_sorted(ordered, rule) ==
    IF ordered = <<>> THEN <<rule>>
    ELSE IF ordered[Len(ordered)].priority <= rule.priority
         THEN Append(ordered, rule)
         ELSE Append(insert_sorted(SubSeq(ordered, 1, Len(ordered) - 1), rule),
                     ordered[Len(ordered)])

RECURSIVE sort_from(_, _, _)
sort_from(rules, k, ordered) ==
    IF k > Len(rules) THEN ordered
    ELSE sort_from(rules, k + 1, insert_sorted(ordered, rules[k]))

sorted_as_given(rules) == rules

sorted_by_priority(rules) == sort_from(rules, 1, <<>>)

\* '; '.join(reasons)
RECURSIVE join_reasons(_)
join_reasons(reasons) ==
    IF Len(reasons) = 1 THEN Head(reasons)
    ELSE Head(reasons) \o <<"; ">> \o join_reasons(Tail(reasons))

final_action_strict(score) ==
    IF ~RGe(Rat(2, 1), score) THEN "include"
    ELSE IF RGe(score, Rat(1, 1)) THEN "flag"
    ELSE "exclude"

\* "Determine final action"
final_action(score) ==
    IF RGe(score, Rat(2, 1)) THEN "include"
    ELSE IF RGe(score, Rat(1, 1)) THEN "flag"
    ELSE "exclude"

\* the loop of _evaluate_product from the k-th rule of the sorted list on,
\* and what follows it
RECURSIVE evaluate_from(_, _, _, _, _, _)
evaluate_from(product, rules, ordered, k, score, reasons) ==
    IF k > Len(ordered)
    THEN [action |-> final_action(score),
          score |-> IF rules # <<>> THEN RMul(score, Rat(1, Len(rules)))
                    ELSE RZero,
          reason |-> IF reasons # <<>> THEN join_reasons(reasons)
                     ELSE <<"No rules matched">>]
    ELSE LET rule == ordered[k]
         IN IF check_condition(product, rule.condition)
            THEN IF rule.action = "include"
                 THEN evaluate_from(product, rules, ordered, k + 1,
                                    RAdd(score, Rat(1, 1)),
                                    Append(reasons, <<"Passed: ", rule.name>>))
                 ELSE IF rule.action = "exclude"
                 THEN [action |-> "exclude", score |-> RZero,
                       reason |-> <<"Excluded by: ", rule.name>>]
                 ELSE IF rule.action = "flag"
                 THEN evaluate_from(product, rules, ordered, k + 1,
                                    RAdd(score, Rat(1, 2)),
                                    Append(reasons, <<"Flagged: ", rule.name>>))
                 ELSE evaluate_from(product, rules, ordered, k + 1, score, reasons)
            ELSE evaluate_from(product, rules, ordered, k + 1, score, reasons)

evaluate_product(product, rules) ==
    evaluate_from(product, rules, sorted_by_priority(rules), 1, RZero, <<>>)

annotate_always_curated(product, is_curated, curation_result) ==
    Put(Put(Put(product, "is_curated", TRUE),
            "curation_score", curation_result.score),
        "curation_reason", curation_result.reason)

\* the three assignments of a branch of apply_curation_rules
annotate(product, is_curated, curation_result) ==
    Put(Put(Put(product, "is_curated", is_curated),
            "curation_score", curation_result.score),
        "curation_reason", curation_result.reason)

\* the loop of apply_curation_rules from the k-th product on
RECURSIVE apply_from(_, _, _, _, _)
apply_from(products, rules, k, curated_products, evaluations) ==
    IF k > Len(products)
    THEN [products |-> products, curated_products |-> curated_products,
          evaluations |-> evaluations]
    ELSE LET curation_result == evaluate_product(products[k], rules)
         IN IF curation_result.action = "include"
            THEN apply_from(
                    [products EXCEPT ![k] = annotate(@, TRUE, curation_result)],
                    rules, k + 1, Append(curated_products, k),
                    Append(evaluations, curation_result))
            ELSE IF curation_result.action = "flag"
            THEN apply_from(
                    [products EXCEPT ![k] = annotate(@, FALSE, curation_result)],
                    rules, k + 1, Append(curated_products, k),
                    Append(evaluations, curation_result))
            ELSE apply_from(products, rules, k + 1, curated_products,
                            Append(evaluations, curation_result))

\* rules is {} for None and {the list} otherwise.  The returned list holds
\* the indices, into products, of the objects appended to it.
apply_curation_rules(self, products, rules) ==
    LET given == IF rules = {} THEN self.default_rules
                 ELSE CHOOSE r \in rules : TRUE
    IN apply_from(products, given, 1, <<>>, <<>>)

(***************************************************************************)
(* Inputs of find_duplicates.                                              *)
(***************************************************************************)
S_x == <<"x">>
S_X_sp == <<"X", " ">>
S_ab == <<"a", "b">>
S_ba == <<"b", "a">>
S_AB_tab == <<"A", "\t", "B">>
S_c_ab == <<"[", "c", "]", " ", "a", "b">>
S_abc == <<"a", "b", "c">>
S_abcd == <<"a", "b", "c", "d">>

DedupPool ==
    { [title |-> S_ab, brand |-> S_x, current_price |-> 16,
       specifications |-> [k \in {"color"} |-> S_ba]],
      [title |-> S_c_ab, brand |-> S_X_sp, current_price |-> 12],
      [title |-> S_ab, brand |-> S_x, current_price |-> 9,
       specifications |-> EmptyDict],
      [title |-> S_abc, brand |-> S_x, current_price |-> 16,
       specifications |-> [k \in {"color", "size"} |-> S_ab]],
      [title |-> S_abcd, brand |-> S_x, current_price |-> 16],
      [title |-> S_AB_tab, current_price |-> None] }

\* the curation variables of a run that does not curate
CurateIdle ==
    /\ curation_engine = CurationEngine_init
    /\ cu_products = <<>>
    /\ cu_call = <<>>
    /\ cu_rules = {}
    /\ cu_evaluations = <<>>
    /\ cu_curated = <<>>

\* the scorer's variables of a run that does not score
QualityIdle ==
    /\ qs_product = EmptyDict
    /\ qs_change = <<>>
    /\ qs_score = RZero
    /\ qs_changed = RZero

\* the variables of the operations that a run of the processing pipeline
\* does not reach
ExtractIdle ==
    /\ ex_page = EmptyDict
    /\ ex_product = EmptyDict
    /\ pp_result = [raised |-> "", data |-> EmptyDict]

NormalizeIdle ==
    /\ nm_text = <<>>
    /\ nm_specs = <<>>
    /\ nm_result = [op |-> "", value |-> <<>>]

SearchIdle ==
    /\ ss_max_pages = 0
    /\ ss_page = 0
    /\ ss_product_urls = <<>>
    /\ ss_results = <<>>
    /\ ss_fetched = <<>>
    /\ ss_served = <<>>

MonitorIdle ==
    /\ mc_products = <<>>
    /\ mc_index = 0
    /\ mc_changes = <<>>
    /\ mc_scraped = <<>>

RequestIdle ==
    /\ mr_at = <<>>
    /\ mr_result = <<>>
    /\ semaphore = 0
    /\ session = FALSE

MonitoringIdle ==
    /\ products_db = <<>>
    /\ price_changes = <<>>
    /\ pm_loops = <<>>
    /\ pm_starts = 0
    /\ pm_cycles = 0

LaterIdle ==
    /\ NormalizeIdle
    /\ SearchIdle
    /\ MonitorIdle
    /\ RequestIdle
    /\ MonitoringIdle

OthersIdle == QualityIdle /\ ExtractIdle /\ LaterIdle

RECURSIVE SeqsUpTo(_, _)
SeqsUpTo(S, n) ==
    IF n = 0 THEN {<<>>}
    ELSE LET shorter == SeqsUpTo(S, n - 1)
         IN shorter \cup {Append(s, x) : s \in shorter, x \in S}

(***************************************************************************)
(* find_duplicates applied to a list of records.                           *)
(***************************************************************************)
InitDedup ==
    /\ pc = "init"
    /\ deduplicator = ProductDeduplicator_init
    /\ fd_products \in SeqsUpTo(DedupPool, MaxProducts)
    /\ fd_result = <<>>
    /\ md_group = <<>>
    /\ md_call = <<>>
    /\ md_merged = EmptyDict
    /\ CurateIdle
    /\ OthersIdle

FindDuplicates ==
    /\ pc = "init"
    /\ fd_result' = find_duplicates(deduplicator, fd_products)
    /\ pc' = "found"
    /\ UNCHANGED <<deduplicator, fd_products, merge_vars, curate_vars, others_vars>>

NextDedup == FindDuplicates

SpecDedup == InitDedup /\ [][NextDedup]_vars

(***************************************************************************)
(* ProductDeduplicator.merge_duplicates                                    *)
(*                                                                         *)
(* data_quality_score is in hundredths.  An image or a feature is a TLA+   *)
(* string ("" is the empty one); a specification value is a str as above.  *)
(* best_product.copy() is shallow: the lists and the dict of the copy are  *)
(* the objects of best_product, so what the loop appends to them shows in  *)
(* the group's member as well.                                             *)
(***************************************************************************)
\* line 259: the key of max()
quality_key(p) == Get(p, "data_quality_score", 0)

\* Mutant: a later member with the same score replaces the best so far.
replaces_best_on_tie(candidate, best) ==
    quality_key(candidate) >= quality_key(best)

\* line 259: max() keeps the first of the members with the highest key
replaces_best(candidate, best) == quality_key(candidate) > quality_key(best)

RECURSIVE max_index(_, _, _)
max_index(duplicate_group, k, best) ==
    IF k > Len(duplicate_group) THEN best
    ELSE IF replaces_best(duplicate_group[k], duplicate_group[best])
         THEN max_index(duplicate_group, k + 1, k)
         ELSE max_index(duplicate_group, k + 1, best)

\* line 259: the index of best_product
best_index(duplicate_group) == max_index(duplicate_group, 2, 1)

\* Mutant: an item is appended whether or not the list has it.
append_novel_always(merged_list, item) == Append(merged_list, item)

\* lines 271-272 and 279-280: if item not in merged_list: append
append_novel(merged_list, item) ==
    IF item \in Range(merged_list) THEN merged_list
    ELSE Append(merged_list, item)

\* Mutant: only the first item of a member is considered.
merge_list_first(merged_list, items) ==
    IF items = <<>> THEN merged_list ELSE append_novel(merged_list, Head(items))

\* lines 270-272 and 278-280: the loop over a member's list
RECURSIVE merge_list(_, _)
merge_list(merged_list, items) ==
    IF items = <<>> THEN merged_list
    ELSE merge_list(append_novel(merged_list, Head(items)), Tail(items))

\* Mutant: a member's value replaces the value merged so far.
merge_specs_overwrite(merged_specs, specs) ==
    [key \in DOMAIN merged_specs \cup {k \in DOMAIN specs : specs[k] # <<>>} |->
        IF key \in DOMAIN specs /\ specs[key] # <<>> THEN specs[key]
        ELSE merged_specs[key]]

\* lines 286-288: a key is added when merged_specs lacks it and the member's
\* value is not empty
merge_specs(merged_specs, specs) ==
    [key \in DOMAIN merged_specs \cup {k \in DOMAIN specs : specs[k] # <<>>} |->
        IF key \in DOMAIN merged_specs THEN merged_specs[key] ELSE specs[key]]

\* lines 267-289: one member merged into merged
merge_product(merged, product) ==
    LET images ==
            IF "additional_images" \in DOMAIN product
            THEN Put(merged, "additional_images",
                     merge_list(Get(merged, "additional_images", <<>>),
                                product.additional_images))
            ELSE merged
        features ==
            IF "features" \in DOMAIN product
            THEN Put(images, "features",
                     merge_list(Get(images, "features", <<>>), product.features))
            ELSE images
    IN IF "specifications" \in DOMAIN product
       THEN Put(features, "specifications",
                merge_specs(Get(features, "specifications", EmptyDict),
                            product.specifications))
       ELSE features

\* The fields whose objects merged shares with best_product (line 260).
SharedFields == {"additional_images", "features", "specifications"}

\* best_product as the heap shows it once merged has been updated
shared_with(best_product, merged) ==
    [key \in DOMAIN best_product |->
        IF key \in SharedFields THEN merged[key] ELSE best_product[key]]

\* lines 263-289: the loop from member k on; b is the index of best_product
RECURSIVE merge_loop(_, _, _, _)
merge_loop(duplicate_group, b, k, merged) ==
    IF k > Len(duplicate_group)
    THEN [merged |-> merged, group |-> duplicate_group]
    ELSE IF duplicate_group[k] = duplicate_group[b]
    THEN merge_loop(duplicate_group, b, k + 1, merged)
    ELSE LET updated == merge_product(merged, duplicate_group[k])
         IN merge_loop([duplicate_group EXCEPT
                            ![b] = shared_with(duplicate_group[b], updated)],
                       b, k + 1, updated)

\* The returned record, and the members of the group after the call.
merge_duplicates(duplicate_group, now) ==
    IF duplicate_group = <<>>
    THEN [merged |-> EmptyDict, group |-> duplicate_group]
    ELSE IF Len(duplicate_group) = 1
    THEN [merged |-> duplicate_group[1], group |-> duplicate_group]
    ELSE LET b == best_index(duplicate_group)
             done == merge_loop(duplicate_group, b, 1, duplicate_group[b])
         IN [merged |-> Put(Put(done.merged, "duplicate_count", Len(duplicate_group)),
                            "merged_at", now),
             group |-> done.group]

(***************************************************************************)
(* Inputs of merge_duplicates.                                             *)
(***************************************************************************)
MergePool ==
    { [id |-> "p1", title |-> S_ab, data_quality_score |-> 80,
       additional_images |-> <<"i1", "i2">>, features |-> <<"f1">>,
       specifications |-> [k \in {"color"} |-> S_ab]],
      [id |-> "p2", title |-> S_abc, data_quality_score |-> 80,
       additional_images |-> <<"i2", "i3", "i3">>, features |-> <<"f2", "f1">>,
       specifications |-> [k \in {"color", "size"} |->
                              IF k = "color" THEN S_ba ELSE <<>>]],
      [id |-> "p3", title |-> S_ab, data_quality_score |-> 90,
       features |-> <<>>,
       specifications |-> [k \in {"color", "size"} |->
                              IF k = "color" THEN <<>> ELSE S_x]],
      [id |-> "p4", title |-> S_abcd,
       additional_images |-> <<"", "i4">>,
       specifications |-> [k \in {"size", "weight"} |->
                              IF k = "size" THEN S_ab ELSE S_x]],
      [id |-> "p5", title |-> S_abc, data_quality_score |-> 90,
       additional_images |-> <<>>, features |-> <<"f3">>] }

\* datetime.now().isoformat()
Clock == {"t1", "t2"}

(***************************************************************************)
(* merge_duplicates applied to a group.                                    *)
(***************************************************************************)
InitMerge ==
    /\ pc = "init"
    /\ deduplicator = ProductDeduplicator_init
    /\ fd_products = <<>>
    /\ fd_result = <<>>
    /\ md_group \in SeqsUpTo(MergePool, MaxGroup)
    /\ md_call = md_group
    /\ md_merged = EmptyDict
    /\ CurateIdle
    /\ OthersIdle

MergeDuplicates ==
    /\ pc = "init"
    /\ \E now \in Clock :
          LET r == merge_duplicates(md_group, now)
          IN /\ md_merged' = r.merged
             /\ md_group' = r.group
    /\ pc' = "merged"
    /\ UNCHANGED <<dedup_vars, md_call, curate_vars, others_vars>>

NextMerge == MergeDuplicates

SpecMerge == InitMerge /\ [][NextMerge]_vars

(***************************************************************************)
(* Inputs of apply_curation_rules.                                         *)
(***************************************************************************)
MaxRules == 3
MaxCurated == 3

S_xAdult == <<"x", "A", "d", "u", "l", "t">>
S_mat == <<"m", "a", "t">>

\* a record that passes every default include rule; one of an excluded
\* category, below the minimum rating and without a review count, as
\* scrape_product leaves it when the page shows none; one on the boundary of
\* both minimums that an earlier run has annotated
CuratePool ==
    { [id |-> "k1", rating |-> 45, review_count |-> 50,
       availability |-> "in_stock", category |-> <<>>],
      [id |-> "k2", rating |-> 30, review_count |-> None,
       availability |-> "in_stock", category |-> S_xAdult],
      [id |-> "k3", rating |-> 40, review_count |-> 10,
       availability |-> "out_of_stock", category |-> S_mat,
       is_curated |-> TRUE, curation_score |-> Rat(2, 3),
       curation_reason |-> <<"Passed: ", "minimum_rating", "; ",
                             "Passed: ", "minimum_reviews">>] }

\* the rules a caller may send: two of the default include rules, a flag
\* rule with two predicates and an exclude rule
RulePool_rating == CurationEngine_init.default_rules[1]

RulePool_reviews == CurationEngine_init.default_rules[2]

RulePool_flag ==
    [name |-> "flag_reviewed_in_stock",
     condition |-> [k \in {"min_reviews", "availability"} |->
                       IF k = "min_reviews" THEN 10 ELSE "in_stock"],
     action |-> "flag", priority |-> 3]

RulePool_exclude ==
    [name |-> "exclude_out_of_stock",
     condition |-> [k \in {"availability"} |-> "out_of_stock"],
     action |-> "exclude", priority |-> 2]

RulePool ==
    {RulePool_rating, RulePool_reviews, RulePool_flag, RulePool_exclude}

(***************************************************************************)
(* apply_curation_rules applied to a list of records and a rule list.      *)
(***************************************************************************)
InitCurate ==
    /\ pc = "init"
    /\ deduplicator = ProductDeduplicator_init
    /\ fd_products = <<>>
    /\ fd_result = <<>>
    /\ md_group = <<>>
    /\ md_call = <<>>
    /\ md_merged = EmptyDict
    /\ curation_engine = CurationEngine_init
    /\ cu_products \in SeqsUpTo(CuratePool, MaxCurated)
    /\ cu_call = cu_products
    /\ cu_rules \in {{}} \cup {{r} : r \in SeqsUpTo(RulePool, MaxRules)}
    /\ cu_evaluations = <<>>
    /\ cu_curated = <<>>
    /\ OthersIdle

ApplyCurationRules ==
    /\ pc = "init"
    /\ LET r == apply_curation_rules(curation_engine, cu_products, cu_rules)
       IN /\ cu_products' = r.products
          /\ cu_curated' = r.curated_products
          /\ cu_evaluations' = r.evaluations
    /\ pc' = "curated"
    /\ UNCHANGED <<dedup_vars, merge_vars, curation_engine, cu_call, cu_rules,
                   others_vars>>

NextCurate == ApplyCurationRules

SpecCurate == InitCurate /\ [][NextCurate]_vars

(***************************************************************************)
(* Claims about find_duplicates (SpecDedup).                               *)
(***************************************************************************)
\* calculate_similarity of every two records of the pool, as a deduplicator
\* with the constructor's weights computes it.
FdSimilarityTable ==
    {[product1 |-> p, product2 |-> q,
      similarity |-> calculate_similarity(ProductDeduplicator_init, p, q)] :
        p \in DedupPool, q \in DedupPool}

\* The similarity the code computes for the records at two input indices.
FdSimilarity(i, j) ==
    (CHOOSE e \in FdSimilarityTable :
        e.product1 = fd_products[i] /\ e.product2 = fd_products[j]).similarity

FdMeets(i, j) == RGe(FdSimilarity(i, j), deduplicator.similarity_threshold)

\* The indices in the groups returned before group k.
FdGroupedBefore(k) == UNION {Range(fd_result[m]) : m \in 1..(k - 1)}

\* The indices in the returned groups whose first member precedes i.
FdConsumedAt(i) ==
    UNION {Range(fd_result[m]) : m \in {n \in 1..Len(fd_result) : fd_result[n][1] < i}}

FdGrouped == UNION {Range(fd_result[m]) : m \in 1..Len(fd_result)}

\* C1: find_duplicates is single-pass greedy in input order.  Every returned
\* group is its first member i (the anchor) followed, in input order, by
\* exactly the later records j that no earlier group holds and whose
\* similarity to the record at i meets the threshold; the groups come in the
\* order of their anchors; and every record that no earlier group holds and
\* that has such a later record is the anchor of a group.  Members are
\* compared with the anchor only.
C1_GreedyGrouping ==
    pc = "found" =>
        /\ \A k \in 1..Len(fd_result) :
              LET i == fd_result[k][1]
              IN fd_result[k] =
                    <<i>> \o SortedSeq({j \in (i + 1)..Len(fd_products) :
                                          /\ j \notin FdGroupedBefore(k)
                                          /\ FdMeets(i, j)})
        /\ \A k \in 1..(Len(fd_result) - 1) :
              fd_result[k][1] < fd_result[k + 1][1]
        /\ \A i \in 1..Len(fd_products) :
              (/\ i \notin FdConsumedAt(i)
               /\ \E j \in (i + 1)..Len(fd_products) :
                     j \notin FdConsumedAt(i) /\ FdMeets(i, j))
              => \E k \in 1..Len(fd_result) : fd_result[k][1] = i

\* C1, its case: the result is not the transitive closure of the duplicate
\* relation (a member of a group meets the threshold with a record outside
\* the group), and the reversed input is grouped differently.
C1_Witness ==
    /\ pc = "found"
    /\ \E k \in 1..Len(fd_result) :
          \E m \in Range(fd_result[k]) :
             \E c \in 1..Len(fd_products) :
                /\ c \notin Range(fd_result[k])
                /\ FdMeets(m, c) /\ FdMeets(c, m)
    /\ LET n == Len(fd_products)
           reversed == [i \in 1..n |-> fd_products[n + 1 - i]]
           other == find_duplicates(deduplicator, reversed)
       IN {{fd_products[i] : i \in Range(fd_result[k])} : k \in 1..Len(fd_result)}
            # {{reversed[i] : i \in Range(other[k])} : k \in 1..Len(other)}

\* C2: deduplication is threshold-exact with respect to the deduplicator's
\* similarity_threshold attribute.  A later record that no earlier group
\* holds is in the anchor's group when its similarity to the anchor equals
\* the threshold and is not when the similarity is below it; and two records
\* that are in no group have a similarity below the threshold.
C2_ThresholdExact ==
    pc = "found" =>
        /\ \A k \in 1..Len(fd_result) :
              LET i == fd_result[k][1]
              IN \A j \in ((i + 1)..Len(fd_products)) \ FdGroupedBefore(k) :
                    /\ FdSimilarity(i, j) = deduplicator.similarity_threshold
                          => j \in Range(fd_result[k])
                    /\ RLt(FdSimilarity(i, j), deduplicator.similarity_threshold)
                          => j \notin Range(fd_result[k])
        /\ \A i \in 1..Len(fd_products) : \A j \in (i + 1)..Len(fd_products) :
              (i \notin FdGrouped /\ j \notin FdGrouped)
              => RLt(FdSimilarity(i, j), deduplicator.similarity_threshold)

\* C2, its case: one pair whose similarity is exactly 0.85 is grouped and
\* another pair whose similarity is in [0.84, 0.85) is not.
C2_Witness ==
    /\ pc = "found"
    /\ deduplicator.similarity_threshold = Rat(85, 100)
    /\ \E k \in 1..Len(fd_result) : \E j \in Range(fd_result[k]) :
          /\ j # fd_result[k][1]
          /\ FdSimilarity(fd_result[k][1], j) = Rat(85, 100)
    /\ \E i \in 1..Len(fd_products) : \E j \in (i + 1)..Len(fd_products) :
          /\ i \notin FdGrouped /\ j \notin FdGrouped
          /\ RGe(FdSimilarity(i, j), Rat(84, 100))
          /\ RLt(FdSimilarity(i, j), Rat(85, 100))

\* Groups are disjoint by index, hold no index twice, have >= 2 members.
FdGroupsWellFormed ==
    /\ \A k \in 1..Len(fd_result) : \A m \in 1..Len(fd_result) :
          k # m => Range(fd_result[k]) \cap Range(fd_result[m]) = {}
    /\ \A k \in 1..Len(fd_result) :
          /\ Cardinality(Range(fd_result[k])) = Len(fd_result[k])
          /\ Len(fd_result[k]) >= 2
          /\ Range(fd_result[k]) \subseteq 1..Len(fd_products)

\* C3 as stated: the groups are pairwise disjoint by input index, no index
\* occurs twice inside a group, every group has at least 2 members, and a
\* record similar to no later unconsumed record appears in no group.
C3_AsStated ==
    pc = "found" =>
        /\ FdGroupsWellFormed
        /\ \A i \in 1..Len(fd_products) :
              (\A j \in (i + 1)..Len(fd_products) :
                  j \in FdConsumedAt(i) \/ ~FdMeets(i, j))
              => i \notin FdGrouped

\* C3 amended: ... and a record that no earlier group holds and that is
\* similar to no later unconsumed record appears in no group.
C3_GroupsDisjoint ==
    pc = "found" =>
        /\ FdGroupsWellFormed
        /\ \A i \in 1..Len(fd_products) :
              (/\ i \notin FdConsumedAt(i)
               /\ \A j \in (i + 1)..Len(fd_products) :
                     j \in FdConsumedAt(i) \/ ~FdMeets(i, j))
              => i \notin FdGrouped

\* C3, its case: two groups are returned for one input list.
C3_Witness ==
    /\ pc = "found"
    /\ Len(fd_result) >= 2

(***************************************************************************)
(* Claims about merge_duplicates (SpecMerge).                              *)
(***************************************************************************)
MdScore(i) == Get(md_call[i], "data_quality_score", 0)

\* The first of the members with the highest data_quality_score.
MdBaseIndex ==
    CHOOSE b \in 1..Len(md_call) :
        /\ \A j \in 1..Len(md_call) : MdScore(j) <= MdScore(b)
        /\ \A j \in 1..(b - 1) : MdScore(j) < MdScore(b)

MdBase == md_call[MdBaseIndex]

MdOthers == (1..Len(md_call)) \ {MdBaseIndex}

MdList(record, field) == Get(record, field, <<>>)

MdSpecs(record) == Get(record, "specifications", EmptyDict)

\* The lists of the members other than the base, concatenated in group order.
RECURSIVE MdOtherItems(_, _)
MdOtherItems(field, i) ==
    IF i > Len(md_call) THEN <<>>
    ELSE (IF i = MdBaseIndex THEN <<>> ELSE MdList(md_call[i], field))
         \o MdOtherItems(field, i + 1)

FirstPosition(list, item) ==
    CHOOSE x \in 1..Len(list) :
        list[x] = item /\ \A y \in 1..(x - 1) : list[y] # item

\* C4 as stated: the merged record contains every non-empty
\* additional_images item, every non-empty features item and every
\* specifications entry (key and value) with a non-empty value that any
\* member of the group has.
C4_AsStated ==
    (pc = "merged" /\ Len(md_call) >= 2) =>
        \A i \in 1..Len(md_call) :
            /\ \A item \in Range(MdList(md_call[i], "additional_images")) :
                  item # "" => item \in Range(MdList(md_merged, "additional_images"))
            /\ \A item \in Range(MdList(md_call[i], "features")) :
                  item # "" => item \in Range(MdList(md_merged, "features"))
            /\ \A key \in DOMAIN MdSpecs(md_call[i]) :
                  MdSpecs(md_call[i])[key] # <<>>
                  => /\ key \in DOMAIN MdSpecs(md_merged)
                     /\ MdSpecs(md_merged)[key] = MdSpecs(md_call[i])[key]

\* C4 amended: the merged record contains every non-empty additional_images
\* item and every non-empty features item that any member of the group has,
\* and its specifications have every key under which any member has a
\* non-empty value.
C4_MergeKeepsItemsAndKeys ==
    (pc = "merged" /\ Len(md_call) >= 2) =>
        \A i \in 1..Len(md_call) :
            /\ \A item \in Range(MdList(md_call[i], "additional_images")) :
                  item # "" => item \in Range(MdList(md_merged, "additional_images"))
            /\ \A item \in Range(MdList(md_call[i], "features")) :
                  item # "" => item \in Range(MdList(md_merged, "features"))
            /\ \A key \in DOMAIN MdSpecs(md_call[i]) :
                  MdSpecs(md_call[i])[key] # <<>>
                  => key \in DOMAIN MdSpecs(md_merged)

\* C4, its case: a member other than the base has an image, a feature and a
\* non-empty specification under a key that the base lacks.
C4_Witness ==
    /\ pc = "merged"
    /\ Len(md_call) >= 2
    /\ \E i \in MdOthers :
          /\ \E item \in Range(MdList(md_call[i], "additional_images")) :
                item # "" /\ item \notin Range(MdList(MdBase, "additional_images"))
          /\ \E key \in DOMAIN MdSpecs(md_call[i]) :
                MdSpecs(md_call[i])[key] # <<>> /\ key \notin DOMAIN MdSpecs(MdBase)
    /\ \E i \in MdOthers :
          \E item \in Range(MdList(md_call[i], "features")) :
             item # "" /\ item \notin Range(MdList(MdBase, "features"))

MdComputedFields ==
    {"additional_images", "features", "specifications", "duplicate_count",
     "merged_at"}

\* C5: the base is the member with the highest data_quality_score, the first
\* of them in group order on a tie, and every field of the merged record
\* other than additional_images, features, specifications, duplicate_count
\* and merged_at is the base's.
C5_BaseIsFirstBest ==
    (pc = "merged" /\ Len(md_call) >= 2) =>
        /\ DOMAIN md_merged \ MdComputedFields = DOMAIN MdBase \ MdComputedFields
        /\ \A key \in DOMAIN MdBase \ MdComputedFields :
              md_merged[key] = MdBase[key]
        /\ md_merged.duplicate_count = Len(md_call)

\* C5, its case: two members with different ids tie for the highest score.
C5_Witness ==
    /\ pc = "merged"
    /\ Len(md_call) >= 2
    /\ \E j \in MdOthers :
          /\ MdScore(j) = MdScore(MdBaseIndex)
          /\ md_call[j].id # MdBase.id
    /\ md_merged.id = MdBase.id

\* The merged list of a field is the base's list followed by the novel items
\* of the other members, each once, in the order of their first occurrence.
MdListMerged(field) ==
    LET base == MdList(MdBase, field)
        others == MdOtherItems(field, 1)
        result == MdList(md_merged, field)
        appended == SubSeq(result, Len(base) + 1, Len(result))
    IN /\ Len(result) >= Len(base)
       /\ SubSeq(result, 1, Len(base)) = base
       /\ Range(appended) = Range(others) \ Range(base)
       /\ \A x \in 1..Len(appended) : \A y \in 1..Len(appended) :
             x < y => /\ appended[x] # appended[y]
                      /\ FirstPosition(others, appended[x])
                            < FirstPosition(others, appended[y])

\* C6: additional_images, and likewise features, of the merged record is the
\* base's list in its order followed by the items of the other members that
\* are not already present, in group order and in each member's own order,
\* each novel item once.
C6_ListsBaseThenNovel ==
    (pc = "merged" /\ Len(md_call) >= 2) =>
        /\ MdListMerged("additional_images")
        /\ MdListMerged("features")

\* C6, its case: the base has images, two other members bring novel ones,
\* and an item of another member is already present.
C6_Witness ==
    /\ pc = "merged"
    /\ Len(md_call) = 3
    /\ MdList(MdBase, "additional_images") # <<>>
    /\ \A i \in MdOthers :
          /\ Range(MdList(md_call[i], "additional_images"))
                \ Range(MdList(MdBase, "additional_images")) # {}
    /\ \E i \in MdOthers :
          Range(MdList(md_call[i], "additional_images"))
             \cap Range(MdList(MdBase, "additional_images")) # {}
    /\ Len(MdList(md_merged, "additional_images"))
          >= Len(MdList(MdBase, "additional_images")) + 2

\* The other members that have a non-empty value under a key.
MdHolders(key) ==
    {i \in MdOthers : /\ key \in DOMAIN MdSpecs(md_call[i])
                      /\ MdSpecs(md_call[i])[key] # <<>>}

\* C7: in the merged specifications every key of the base keeps the base's
\* value, and a key the base lacks has the value of the first other member,
\* in group order, with a non-empty value for it (and is absent when no
\* other member has one).
C7_SpecsBaseWins ==
    (pc = "merged" /\ Len(md_call) >= 2) =>
        /\ \A key \in DOMAIN MdSpecs(MdBase) :
              /\ key \in DOMAIN MdSpecs(md_merged)
              /\ MdSpecs(md_merged)[key] = MdSpecs(MdBase)[key]
        /\ \A key \in UNION {DOMAIN MdSpecs(md_call[i]) : i \in MdOthers}
                        \ DOMAIN MdSpecs(MdBase) :
              IF MdHolders(key) = {}
              THEN key \notin DOMAIN MdSpecs(md_merged)
              ELSE LET first == CHOOSE i \in MdHolders(key) :
                                   \A j \in MdHolders(key) : i <= j
                   IN /\ key \in DOMAIN MdSpecs(md_merged)
                      /\ MdSpecs(md_merged)[key] = MdSpecs(md_call[first])[key]

\* C7, its case: another member has a different non-empty value under a key
\* of the base, and a key the base lacks is empty in the first other member
\* that has it and filled from a later one.
C7_Witness ==
    /\ pc = "merged"
    /\ Len(md_call) >= 2
    /\ \E key \in DOMAIN MdSpecs(MdBase) : \E i \in MdHolders(key) :
          MdSpecs(md_call[i])[key] # MdSpecs(MdBase)[key]
    /\ \E key \in DOMAIN MdSpecs(md_merged) \ DOMAIN MdSpecs(MdBase) :
          \E i \in MdOthers : \E j \in MdHolders(key) :
             /\ i < j
             /\ key \in DOMAIN MdSpecs(md_call[i])
             /\ MdSpecs(md_call[i])[key] = <<>>

(***************************************************************************)
(* Claims about the curation engine (SpecCurate).                          *)
(***************************************************************************)
\* the rule list the call evaluates against
CuGiven ==
    IF cu_rules = {} THEN curation_engine.default_rules
    ELSE CHOOSE r \in cu_rules : TRUE

CuRecords == 1..Len(cu_call)
CuRuleIndices == 1..Len(CuGiven)

\* the k-th rule's condition is satisfied by the i-th record
CuMatches(i, k) == check_condition(cu_call[i], CuGiven[k].condition)

\* rule k is considered before rule l: lower priority number first, and
\* list order among equal priorities
CuBefore(k, l) ==
    \/ CuGiven[k].priority < CuGiven[l].priority
    \/ CuGiven[k].priority = CuGiven[l].priority /\ k < l

\* the satisfied rules of the i-th record with the given action
CuMatching(i, action) ==
    {k \in CuRuleIndices : CuGiven[k].action = action /\ CuMatches(i, k)}

CuFirst(S) == CHOOSE k \in S : \A l \in S \ {k} : CuBefore(k, l)

\* the i-th record's satisfied include and flag rules
CuScoring(i) == CuMatching(i, "include") \cup CuMatching(i, "flag")

\* the position of rule k among the scoring rules of the i-th record
CuRank(i, k) == Cardinality({l \in CuScoring(i) : CuBefore(l, k)}) + 1

\* the reason lists the scoring rules of the i-th record in the order in
\* which they are considered
CuReasonInOrder(i) ==
    LET reason == cu_evaluations[i].reason
    IN IF CuScoring(i) = {} THEN reason = <<"No rules matched">>
       ELSE /\ Len(reason) = 3 * Cardinality(CuScoring(i)) - 1
            /\ \A k \in CuScoring(i) :
                  /\ reason[3 * CuRank(i, k) - 2] =
                        (IF CuGiven[k].action = "include" THEN "Passed: "
                         ELSE "Flagged: ")
                  /\ reason[3 * CuRank(i, k) - 1] = CuGiven[k].name

\* C8: rules are considered in ascending priority; when an exclude rule is
\* satisfied the evaluation is exclude, score 0, "Excluded by: " and the name
\* of the first satisfied exclude rule in that order, whatever include or flag
\* rules were satisfied before it; otherwise the reason lists the satisfied
\* rules in that order.
C8_PriorityOrderExcludeStops ==
    pc = "curated" =>
        \A i \in CuRecords :
            IF CuMatching(i, "exclude") # {}
            THEN cu_evaluations[i] =
                    [action |-> "exclude", score |-> RZero,
                     reason |-> <<"Excluded by: ",
                                  CuGiven[CuFirst(CuMatching(i, "exclude"))].name>>]
            ELSE CuReasonInOrder(i)

\* a record for which a satisfied include rule is considered before the
\* satisfied exclude rule, in a rule list that is not given in priority order
C8_Witness ==
    /\ pc = "curated"
    /\ cu_rules # {}
    /\ \E k, l \in CuRuleIndices : k < l /\ CuBefore(l, k)
    /\ \E i \in CuRecords :
          /\ CuMatching(i, "exclude") # {}
          /\ \E k \in CuMatching(i, "include") :
                CuBefore(k, CuFirst(CuMatching(i, "exclude")))
          /\ cu_evaluations[i].action = "exclude"

\* 1.0 per satisfied include rule plus 0.5 per satisfied flag rule
CuAccumulated(i) ==
    RAdd(Rat(Cardinality(CuMatching(i, "include")), 1),
         Rat(Cardinality(CuMatching(i, "flag")), 2))

\* C9: when no exclude rule is satisfied, the action is include from an
\* accumulated score of 2.0, flag from 1.0 and below 2.0, exclude below 1.0;
\* the score is the accumulated score divided by the number of rules, 0 for
\* no rules, it lies in [0,1], and it is the curation_score of a record that
\* is annotated.
C9_ScoreAndThresholds ==
    pc = "curated" =>
        \A i \in CuRecords :
            CuMatching(i, "exclude") = {} =>
                LET result == cu_evaluations[i]
                    accumulated == CuAccumulated(i)
                IN /\ result.action =
                        (IF RGe(accumulated, Rat(2, 1)) THEN "include"
                         ELSE IF RGe(accumulated, Rat(1, 1)) THEN "flag"
                         ELSE "exclude")
                   /\ result.score =
                        (IF Len(CuGiven) = 0 THEN RZero
                         ELSE Rat(accumulated.n, accumulated.d * Len(CuGiven)))
                   /\ RGe(result.score, RZero)
                   /\ RGe(ROne, result.score)
                   /\ result.action \in {"include", "flag"} =>
                        cu_products[i]["curation_score"] = result.score

\* one rule list under which a record is included for exactly 2.0, made of
\* an include and two flag matches, a second is flagged for exactly 1.0 and
\* a third is excluded for 0
C9_Witness ==
    /\ pc = "curated"
    /\ \E i, j, k \in CuRecords :
          /\ CuMatching(i, "exclude") = {}
          /\ CuMatching(i, "include") # {}
          /\ CuMatching(i, "flag") # {}
          /\ CuAccumulated(i) = Rat(2, 1)
          /\ cu_evaluations[i].action = "include"
          /\ cu_products[i]["curation_score"] = Rat(2, 3)
          /\ CuAccumulated(j) = Rat(1, 1)
          /\ cu_evaluations[j].action = "flag"
          /\ CuAccumulated(k) = RZero
          /\ cu_evaluations[k].action = "exclude"

\* the fields apply_curation_rules assigns
CuAnnotations == {"is_curated", "curation_score", "curation_reason"}

\* C10: the returned list is, in input order, exactly the records whose
\* evaluation is include or flag; an included record has is_curated True, a
\* flagged one False; an excluded record is not returned and is left as it
\* was; the input list keeps every record.
C10_ReturnsIncludedAndFlagged ==
    pc = "curated" =>
        LET action(i) == evaluate_product(cu_call[i], CuGiven).action
        IN /\ cu_curated =
                SortedSeq({i \in CuRecords : action(i) \in {"include", "flag"}})
           /\ Len(cu_products) = Len(cu_call)
           /\ \A i \in CuRecords :
                 /\ \A key \in DOMAIN cu_call[i] \ CuAnnotations :
                       /\ key \in DOMAIN cu_products[i]
                       /\ cu_products[i][key] = cu_call[i][key]
                 /\ action(i) = "include" => cu_products[i]["is_curated"] = TRUE
                 /\ action(i) = "flag" => cu_products[i]["is_curated"] = FALSE
                 /\ action(i) = "exclude" =>
                       /\ i \notin Range(cu_curated)
                       /\ DOMAIN cu_products[i] = DOMAIN cu_call[i]
                       /\ \A key \in DOMAIN cu_call[i] \cap CuAnnotations :
                             cu_products[i][key] = cu_call[i][key]

\* an excluded record between a flagged one and an included one
C10_Witness ==
    /\ pc = "curated"
    /\ Len(cu_call) = 3
    /\ cu_evaluations[1].action = "flag"
    /\ cu_evaluations[2].action = "exclude"
    /\ cu_evaluations[3].action = "include"
    /\ cu_curated = <<1, 3>>
    /\ cu_products[1]["is_curated"] = FALSE
    /\ cu_products[3]["is_curated"] = TRUE
    /\ cu_products[2] = cu_call[2]

(***************************************************************************)
(* DataQualityScorer.  The values of primary_image_url and availability    *)
(* are TLA+ strings, the other texts are character sequences.              *)
(***************************************************************************)
NumericFields == {"current_price", "rating", "review_count"}
TokenFields == {"primary_image_url", "availability"}

\* bool(product.get(key))
Truthy(product, key) ==
    /\ key \in DOMAIN product
    /\ IF key \in NumericFields THEN TruthyNum(product[key])
       ELSE IF key \in TokenFields THEN product[key] # ""
       ELSE product[key] # <<>>

\* product.get('availability') != 'unknown'
availability_not_unknown(product) ==
    "availability" \notin DOMAIN product \/ product["availability"] # "unknown"

\* if satisfied: score += weight
add_weight(score, satisfied, weight) ==
    IF satisfied THEN RAdd(score, weight) ELSE score

RMin(x, y) == IF RGe(y, x) THEN x ELSE y

calculate_quality_score(product) ==
    LET max_score == ROne
        s1 == add_weight(RZero, Truthy(product, "title"), Rat(15, 100))
        s2 == add_weight(s1, Truthy(product, "brand"), Rat(10, 100))
        s3 == add_weight(s2, Truthy(product, "description")
                               \/ Truthy(product, "bullet_points"),
                         Rat(10, 100))
        s4 == add_weight(s3, Truthy(product, "category"), Rat(5, 100))
        s5 == add_weight(s4, Truthy(product, "current_price"), Rat(15, 100))
        s6 == add_weight(s5, availability_not_unknown(product), Rat(10, 100))
        s7 == add_weight(s6, Truthy(product, "primary_image_url"), Rat(10, 100))
        s8 == add_weight(s7, Truthy(product, "additional_images"), Rat(5, 100))
        s9 == add_weight(s8, Truthy(product, "specifications"), Rat(8, 100))
        s10 == add_weight(s9, Truthy(product, "features"), Rat(7, 100))
        s11 == add_weight(s10, Truthy(product, "rating"), Rat(3, 100))
        s12 == add_weight(s11, Truthy(product, "review_count"), Rat(2, 100))
    IN RMin(s12, max_score)

(***************************************************************************)
(* Inputs of calculate_quality_score: every scored field either as         *)
(* scrape_product initialises it (or missing) or filled.  An option is the *)
(* set of the key's values: {} for a missing key.                          *)
(***************************************************************************)
ScoredFields ==
    {"title", "brand", "description", "bullet_points", "category",
     "current_price", "availability", "primary_image_url",
     "additional_images", "specifications", "features", "rating",
     "review_count"}

\* the value a scored field has when it is filled; which is "filled", or
\* the status for availability
FilledValue(field, which) ==
    CASE field = "title" -> S_ab
      [] field = "brand" -> S_x
      [] field = "description" -> S_abc
      [] field = "bullet_points" -> <<S_ab>>
      [] field = "category" -> S_abcd
      [] field = "current_price" -> 16
      [] field = "availability" -> which
      [] field = "primary_image_url" -> "i1"
      [] field = "additional_images" -> <<"i2">>
      [] field = "specifications" -> [k \in {"color"} |-> S_ab]
      [] field = "features" -> <<"f1">>
      [] field = "rating" -> 45
      [] field = "review_count" -> 50

\* the record with the keys whose option is not {}
WithFields(options) ==
    [k \in {f \in DOMAIN options : options[f] # {}} |->
        CHOOSE v \in options[k] : TRUE]

Filled(field) == {FilledValue(field, "filled")}

QualityPool ==
    { WithFields([title |-> t, brand |-> b, description |-> d,
                  bullet_points |-> bp, category |-> c, current_price |-> p,
                  availability |-> a, primary_image_url |-> im,
                  additional_images |-> ai, specifications |-> sp,
                  features |-> f, rating |-> r, review_count |-> rc]) :
        t \in {{<<>>}, Filled("title")},
        b \in {{}, Filled("brand")},
        d \in {{<<>>}, Filled("description")},
        bp \in {{<<>>}, Filled("bullet_points")},
        c \in {{<<>>}, Filled("category")},
        p \in {{None}, Filled("current_price")},
        a \in {{}, {"unknown"}, {"in_stock"}},
        im \in {{""}, Filled("primary_image_url")},
        ai \in {{<<>>}, Filled("additional_images")},
        sp \in {{EmptyDict}, Filled("specifications")},
        f \in {{}, Filled("features")},
        r \in {{None}, Filled("rating")},
        rc \in {{None}, Filled("review_count")} }

\* the field is missing or empty in the record
Unfilled(product, field) ==
    IF field = "availability" THEN field \notin DOMAIN product
    ELSE ~Truthy(product, field)

NoChange == [field |-> "", value |-> ""]

\* the changes of one unfilled scored field to a non-empty value
Changes(product) ==
    {[field |-> f, value |-> w] :
        f \in {g \in ScoredFields : Unfilled(product, g)},
        w \in {"filled", "unknown", "in_stock"}}

changed_product(product, change) ==
    IF change = NoChange THEN product
    ELSE Put(product, change.field, FilledValue(change.field, change.value))

(***************************************************************************)
(* calculate_quality_score applied to a record, and to the record with one *)
(* field filled.                                                           *)
(***************************************************************************)
InitQuality ==
    /\ pc = "init"
    /\ deduplicator = ProductDeduplicator_init
    /\ fd_products = <<>>
    /\ fd_result = <<>>
    /\ md_group = <<>>
    /\ md_call = <<>>
    /\ md_merged = EmptyDict
    /\ CurateIdle
    /\ qs_product \in QualityPool
    /\ qs_change \in {NoChange} \cup
          {c \in Changes(qs_product) :
              (c.field = "availability") = (c.value # "filled")}
    /\ qs_score = RZero
    /\ qs_changed = RZero
    /\ ExtractIdle
    /\ LaterIdle

CalculateQualityScore ==
    /\ pc = "init"
    /\ qs_score' = calculate_quality_score(qs_product)
    /\ qs_changed' = calculate_quality_score(changed_product(qs_product, qs_change))
    /\ pc' = "scored"
    /\ UNCHANGED <<dedup_vars, merge_vars, curate_vars, qs_product, qs_change,
                   extract_vars, later_vars>>

NextQuality == CalculateQualityScore

SpecQuality == InitQuality /\ [][NextQuality]_vars

(***************************************************************************)
(* Claims about the quality score (SpecQuality).                           *)
(***************************************************************************)
\* the scored field holds a value: the key is there and its value is not
\* empty
QsPresent(product, field) ==
    IF field = "availability"
    THEN field \in DOMAIN product /\ product[field] # ""
    ELSE Truthy(product, field)

\* the static weights, in hundredths, of the checks the record satisfies
QsSatisfiedWeights(product) ==
    << IF QsPresent(product, "title") THEN 15 ELSE 0,
       IF QsPresent(product, "brand") THEN 10 ELSE 0,
       IF QsPresent(product, "description")
          \/ QsPresent(product, "bullet_points") THEN 10 ELSE 0,
       IF QsPresent(product, "category") THEN 5 ELSE 0,
       IF QsPresent(product, "current_price") THEN 15 ELSE 0,
       IF availability_not_unknown(product) THEN 10 ELSE 0,
       IF QsPresent(product, "primary_image_url") THEN 10 ELSE 0,
       IF QsPresent(product, "additional_images") THEN 5 ELSE 0,
       IF QsPresent(product, "specifications") THEN 8 ELSE 0,
       IF QsPresent(product, "features") THEN 7 ELSE 0,
       IF QsPresent(product, "rating") THEN 3 ELSE 0,
       IF QsPresent(product, "review_count") THEN 2 ELSE 0 >>

RECURSIVE SumSeq(_)
SumSeq(s) == IF s = <<>> THEN 0 ELSE Head(s) + SumSeq(Tail(s))

\* the score is the sum of the weights of the satisfied checks and lies in
\* [0,1]; it is 1 when every scored field is present
QsWeightedSum ==
    pc = "scored" =>
        /\ qs_score = Rat(SumSeq(QsSatisfiedWeights(qs_product)), 100)
        /\ RGe(qs_score, RZero)
        /\ RGe(ROne, qs_score)
        /\ ((\A f \in ScoredFields : QsPresent(qs_product, f))
              /\ qs_product["availability"] # "unknown")
              => qs_score = ROne

\* C11: the score is the sum of the static weights of the satisfied checks,
\* within [0,1], 1.0 when every scored field is present, and 0 for a record
\* in which no scored field is present.
C11_AsStated ==
    /\ QsWeightedSum
    /\ pc = "scored" =>
          ((\A f \in ScoredFields : ~QsPresent(qs_product, f))
              => qs_score = RZero)

\* a record with no scored field present, and no availability key, is
\* given 0.10
C11_Witness ==
    /\ pc = "scored"
    /\ \A f \in ScoredFields : ~QsPresent(qs_product, f)
    /\ "availability" \notin DOMAIN qs_product
    /\ qs_score = Rat(10, 100)

\* C12: changing one scored field from missing or empty to a non-empty
\* value, the others unchanged, never decreases the score.
C12_AsStated ==
    (pc = "scored" /\ qs_change # NoChange) => RGe(qs_changed, qs_score)

\* a record without availability whose score drops by 0.10 when the
\* availability becomes 'unknown'
C12_Witness ==
    /\ pc = "scored"
    /\ qs_change = [field |-> "availability", value |-> "unknown"]
    /\ "availability" \notin DOMAIN qs_product
    /\ qs_score = RAdd(qs_changed, Rat(10, 100))

\* filling any scored field other than availability never decreases the
\* score, nor does setting the availability to a status other than unknown
QsMonotonicElsewhere ==
    (pc = "scored" /\ qs_change # NoChange
        /\ qs_change # [field |-> "availability", value |-> "unknown"])
        => RGe(qs_changed, qs_score)

(***************************************************************************)
(* Numbers in text.                                                        *)
(***************************************************************************)
DigitChars == <<"0", "1", "2", "3", "4", "5", "6", "7", "8", "9">>
Digits == Range(DigitChars)

DigitValue(c) == (CHOOSE i \in 1..10 : DigitChars[i] = c) - 1

\* int() of a string of digits
RECURSIVE digits_value(_, _)
digits_value(s, acc) ==
    IF s = <<>> THEN acc
    ELSE digits_value(Tail(s), 10 * acc + DigitValue(Head(s)))

RECURSIVE Pow10(_)
Pow10(k) == IF k = 0 THEN 1 ELSE 10 * Pow10(k - 1)

\* the characters of s that are in S, in order
RECURSIVE Keep(_, _)
Keep(s, S) ==
    IF s = <<>> THEN <<>>
    ELSE IF Head(s) \in S THEN <<Head(s)>> \o Keep(Tail(s), S)
    ELSE Keep(Tail(s), S)

\* the longest prefix of s made of characters of S
RECURSIVE TakeWhile(_, _)
TakeWhile(s, S) ==
    IF s # <<>> /\ Head(s) \in S THEN <<Head(s)>> \o TakeWhile(Tail(s), S)
    ELSE <<>>

\* s from its first character of S on
RECURSIVE DropUntil(_, _)
DropUntil(s, S) ==
    IF s = <<>> \/ Head(s) \in S THEN s ELSE DropUntil(Tail(s), S)

\* float(s) for a string of digits and points: error stands for ValueError
float_of(s) ==
    LET points == Keep(s, {"."})
        whole == TakeWhile(s, Digits)
        fraction == SubSeq(s, Len(whole) + 2, Len(s))
    IN IF Keep(s, Digits \cup {"."}) # s \/ Len(points) > 1
          \/ Keep(s, Digits) = <<>>
       THEN [error |-> TRUE, value |-> RZero]
       ELSE [error |-> FALSE,
             value |-> Rat(digits_value(whole \o fraction, 0),
                           Pow10(Len(fraction)))]

RDiv(x, y) == Rat(x.n * y.d, x.d * y.n)

\* round(x, 2): the nearest multiple of 0.01, the even one at a tie
round2(x) ==
    LET scaled == x.n * 100
        q == scaled \div x.d
        r == scaled % x.d
        nearest == IF 2 * r < x.d THEN q
                   ELSE IF 2 * r > x.d THEN q + 1
                   ELSE IF q % 2 = 0 THEN q ELSE q + 1
    IN Rat(nearest, 100)

\* ((original_price - current_price) / original_price) * 100
discount_of(current_price, original_price) ==
    RMul(RDiv(RAdd(original_price, RNeg(current_price)), original_price),
         Rat(100, 1))

(***************************************************************************)
(* A fetched page is the function from the CSS selectors that select an    *)
(* element of it to the text of the first such element (select_one and     *)
(* get_text).  An Optional[float] is a rational or NoFloat.                *)
(***************************************************************************)
NoFloat == [n |-> 0, d |-> 0]

\* bool(x) of an Optional[float]
TruthyFloat(x) == x # NoFloat /\ x.n # 0

\* the first selector of the list, from the k-th on, that selects an
\* element; 0 when none does
RECURSIVE first_selected(_, _, _)
first_selected(page, selectors, k) ==
    IF k > Len(selectors) THEN 0
    ELSE IF selectors[k] \in DOMAIN page THEN k
    ELSE first_selected(page, selectors, k + 1)

\* re.search(r'[\d,]+\.?\d*', text).group(), <<>> when there is no match
re_search_number(text) ==
    LET from == DropUntil(text, Digits \cup {","})
        whole == TakeWhile(from, Digits \cup {","})
        rest == SubSeq(from, Len(whole) + 1, Len(from))
    IN IF from = <<>> THEN <<>>
       ELSE IF rest # <<>> /\ Head(rest) = "."
       THEN whole \o <<".">> \o TakeWhile(Tail(rest), Digits)
       ELSE whole

\* the price a text of scrape_amazon_product holds, NoFloat when the
\* pattern does not match or float raises ValueError
main_price_of(text) ==
    LET price_match == re_search_number(Keep(Strip(text), Range(Strip(text)) \ {"$", ","}))
    IN IF price_match = <<>> THEN NoFloat
       ELSE LET parsed == float_of(price_match)
            IN IF parsed.error THEN NoFloat ELSE parsed.value

main_price_selectors ==
    << ".a-price-whole", ".a-price .a-offscreen", "#priceblock_dealprice",
       "#priceblock_ourprice", ".a-price-range .a-offscreen",
       ".a-price .a-price-whole" >>

\* "Price extraction (enhanced)": the first selector that selects an
\* element is the only one tried
main_current_price(page) ==
    LET k == first_selected(page, main_price_selectors, 1)
    IN IF k = 0 THEN NoFloat ELSE main_price_of(page[main_price_selectors[k]])

\* if product_data['current_price'] and product_data['original_price']
must_have_both(current_price, original_price) ==
    TruthyFloat(current_price) /\ TruthyFloat(original_price)

\* "Original price (for discounts)": product_data with original_price and
\* discount_percentage assigned
main_original_price(page, product_data) ==
    IF ".a-text-price .a-offscreen" \notin DOMAIN page THEN product_data
    ELSE LET original_price == main_price_of(page[".a-text-price .a-offscreen"])
         IN IF original_price = NoFloat THEN product_data
            ELSE LET with_original ==
                        [product_data EXCEPT !["original_price"] = original_price]
                 IN IF must_have_both(product_data["current_price"], original_price)
                    THEN [with_original EXCEPT !["discount_percentage"] =
                            round2(discount_of(product_data["current_price"],
                                               original_price))]
                    ELSE with_original

\* the price fields of the product_data that scrape_amazon_product returns
scrape_amazon_product(page) ==
    LET product_data == [current_price |-> NoFloat, original_price |-> NoFloat,
                         discount_percentage |-> NoFloat]
    IN main_original_price(page,
          [product_data EXCEPT !["current_price"] = main_current_price(page)])

(***************************************************************************)
(* PremiumAmazonScraper.  The result of a call is the value it returns or  *)
(* the exception it raises.  An argument annotated BeautifulSoup is        *)
(* [soup |-> page] when the caller passes the parsed page and              *)
(* [str |-> text] when it passes a text.                                   *)
(***************************************************************************)
Returned(value) == [raised |-> "", value |-> value]
Raised(exception) == [raised |-> exception, value |-> NoFloat]

amazon_selectors ==
    [_extract_price |->
        << ".a-price-whole", ".a-offscreen", "#priceblock_dealprice",
           "#priceblock_ourprice", ".a-price-range .a-price-whole",
           ".a-price .a-offscreen", "[data-automation-id=\"product-price\"]" >>,
     _extract_original_price |->
        << ".a-price-was .a-offscreen", ".a-text-strike",
           ".a-price-range .a-price-was .a-offscreen",
           ".was-price .a-offscreen" >>,
     _extract_rating |->
        << ".a-icon-alt", "[data-automation-id=\"star-rating\"] .a-icon-alt",
           ".a-icon-star .a-icon-alt", ".review-rating .a-icon-alt" >>,
     _extract_review_count |->
        << "#acrCustomerReviewText", "[data-automation-id=\"review-count\"]",
           ".a-size-base", ".review-count" >>]

\* the method of the same name that the loop body calls on self
amazon_inner_method ==
    [_extract_price |-> "_extract_price",
     _extract_original_price |-> "_extract_price",
     _extract_rating |-> "_extract_rating",
     _extract_review_count |-> "_extract_review_count"]

\* self.<method>(arg) on a PremiumAmazonScraper: the subclass defines each
\* of the four methods, so the call runs the subclass's loop over selectors,
\* whose soup.select_one raises AttributeError when soup is a str
RECURSIVE amazon_call(_, _)
RECURSIVE amazon_selector_loop(_, _, _)
amazon_selector_loop(method, page, k) ==
    LET selectors == amazon_selectors[method]
    IN IF k > Len(selectors) THEN Returned(NoFloat)
       ELSE IF selectors[k] \in DOMAIN page
       THEN LET found == amazon_call(amazon_inner_method[method],
                                     [str |-> page[selectors[k]]])
            IN IF found.raised # "" THEN found
               ELSE IF TruthyFloat(found.value) THEN found
               ELSE amazon_selector_loop(method, page, k + 1)
       ELSE amazon_selector_loop(method, page, k + 1)

amazon_call(method, arg) ==
    IF "str" \in DOMAIN arg THEN Raised("AttributeError")
    ELSE amazon_selector_loop(method, arg.soup, 1)

S_in_stock == <<"i", "n", " ", "s", "t", "o", "c", "k">>
S_out_of_stock == <<"o", "u", "t", " ", "o", "f", " ", "s", "t", "o", "c", "k">>
S_pre_order == <<"p", "r", "e", "-", "o", "r", "d", "e", "r">>
S_limited == <<"l", "i", "m", "i", "t", "e", "d">>

amazon_availability_selectors ==
    << "#availability span", ".a-size-medium.a-color-success",
       ".a-size-medium.a-color-price",
       "[data-automation-id=\"availability\"]", ".availability" >>

\* PremiumAmazonScraper._extract_availability, from the k-th selector on
RECURSIVE amazon_extract_availability(_, _)
amazon_extract_availability(page, k) ==
    LET selectors == amazon_availability_selectors
    IN IF k > Len(selectors) THEN "unknown"
       ELSE IF selectors[k] \in DOMAIN page
       THEN LET availability == Lower(Strip(page[selectors[k]]))
            IN IF InStr(S_in_stock, availability) THEN "in_stock"
               ELSE IF InStr(S_out_of_stock, availability) THEN "out_of_stock"
               ELSE IF InStr(S_pre_order, availability) THEN "pre_order"
               ELSE IF InStr(S_limited, availability) THEN "limited_stock"
               ELSE amazon_extract_availability(page, k + 1)
       ELSE amazon_extract_availability(page, k + 1)

\* PremiumAmazonScraper._parse_product_page: the fields that the modelled
\* selectors decide, or the exception that the except clause re-raises
parse_product_page(page) ==
    LET price == amazon_call("_extract_price", [soup |-> page])
        original_price == amazon_call("_extract_original_price", [soup |-> page])
        rating == amazon_call("_extract_rating", [soup |-> page])
        review_count == amazon_call("_extract_review_count", [soup |-> page])
        raising == {r \in {price, original_price, rating, review_count} :
                        r.raised # ""}
        product_data ==
            [price |-> price.value, original_price |-> original_price.value,
             rating |-> rating.value, review_count |-> review_count.value,
             availability |-> amazon_extract_availability(page, 1)]
    IN IF raising # {}
       THEN [raised |-> (CHOOSE r \in raising : TRUE).raised, data |-> EmptyDict]
       ELSE IF TruthyFloat(product_data["price"])
               /\ TruthyFloat(product_data["original_price"])
       THEN [raised |-> "",
             data |-> Put(product_data, "discount_percentage",
                          round2(discount_of(product_data["price"],
                                             product_data["original_price"])))]
       ELSE [raised |-> "", data |-> product_data]

(***************************************************************************)
(* Pages of the extraction runs.                                           *)
(***************************************************************************)
T_80 == <<"8", "0">>
T_120 == <<"1", "2", "0">>
T_0 == <<"0">>
T_NA == <<"N", "/", "A">>
T_1299 == <<"$", "1", ",", "2", "9", "9", ".", "0", "0">>
T_d80 == <<"$", "8", "0", ".", "0", "0">>
T_d100 == <<"$", "1", "0", "0">>
T_d120 == <<"$", "1", "2", "0">>
T_stars == <<"4", ".", "5", " ", "o", "u", "t", " ", "o", "f", " ", "5",
    " ", "s", "t", "a", "r", "s">>
T_ratings == <<"1", ",", "2", "3", "4", " ", "r", "a", "t", "i", "n", "g",
    "s">>
T_only2left == <<"I", "n", " ", "S", "t", "o", "c", "k", ",", " ", "o",
    "n", "l", "y", " ", "2", " ", "l", "e", "f", "t">>
T_unavailable == <<"C", "u", "r", "r", "e", "n", "t", "l", "y", " ", "u",
    "n", "a", "v", "a", "i", "l", "a", "b", "l", "e">>
T_zzz == <<"z", "z", "z">>
T_Limited == <<"L", "i", "m", "i", "t", "e", "d">>

PageOptions ==
    << [selector |-> ".a-price-whole",
        texts |-> {T_80, T_120, T_0, T_NA, T_1299}],
       [selector |-> "#priceblock_ourprice", texts |-> {T_d80}],
       [selector |-> ".a-text-price .a-offscreen",
        texts |-> {T_d100, T_d120, T_0}],
       [selector |-> ".a-icon-alt", texts |-> {T_stars}],
       [selector |-> "#acrCustomerReviewText", texts |-> {T_ratings}],
       [selector |-> "#availability span",
        texts |-> {T_only2left, T_unavailable, T_zzz}],
       [selector |-> ".availability", texts |-> {T_Limited}] >>

\* the pages in which each selector of the options selects no element or an
\* element with one of its texts
RECURSIVE PagesOver(_)
PagesOver(options) ==
    IF options = <<>> THEN {EmptyDict}
    ELSE LET rest == PagesOver(Tail(options))
         IN rest \cup {Put(page, Head(options).selector, text) :
                          page \in rest, text \in Head(options).texts}

\* an element that ".a-text-price .a-offscreen" selects is one that
\* ".a-offscreen" selects
WithImplied(page) ==
    IF ".a-text-price .a-offscreen" \in DOMAIN page
    THEN Put(page, ".a-offscreen", page[".a-text-price .a-offscreen"])
    ELSE page

PagePool == {WithImplied(page) : page \in PagesOver(PageOptions)}

InitExtract ==
    /\ pc = "init"
    /\ deduplicator = ProductDeduplicator_init
    /\ fd_products = <<>>
    /\ fd_result = <<>>
    /\ md_group = <<>>
    /\ md_call = <<>>
    /\ md_merged = EmptyDict
    /\ CurateIdle
    /\ QualityIdle
    /\ ex_page \in PagePool
    /\ ex_product = EmptyDict
    /\ pp_result = [raised |-> "", data |-> EmptyDict]
    /\ LaterIdle

\* main.py: scrape_amazon_product on the fetched page
ScrapeAmazonProduct ==
    /\ pc = "init"
    /\ ex_product' = scrape_amazon_product(ex_page)
    /\ pc' = "scraped"
    /\ UNCHANGED <<dedup_vars, merge_vars, curate_vars, quality_vars,
                   ex_page, pp_result, later_vars>>

\* PremiumAmazonScraper._parse_product_page on the fetched page
ParseProductPage ==
    /\ pc = "init"
    /\ pp_result' = parse_product_page(ex_page)
    /\ pc' = "parsed"
    /\ UNCHANGED <<dedup_vars, merge_vars, curate_vars, quality_vars,
                   ex_page, ex_product, later_vars>>

NextExtract == ScrapeAmazonProduct \/ ParseProductPage

SpecExtract == InitExtract /\ [][NextExtract]_vars

(***************************************************************************)
(* Claims about the extracted fields (SpecExtract).                        *)
(***************************************************************************)
\* the Optional[float] holds a number
HasFloat(x) == x # NoFloat

\* x <= y on rationals
RLe(x, y) == RGe(y, x)

\* the nearest hundredths to x: the ones no further from x than 0.005
NearestHundredth(x, rounded) ==
    /\ rounded.d \in {1, 2, 4, 5, 10, 20, 25, 50, 100}
    /\ RLe(RAdd(x, RNeg(rounded)), Rat(5, 1000))
    /\ RLe(RAdd(rounded, RNeg(x)), Rat(5, 1000))

\* C13: scrape_amazon_product stores discount_percentage exactly when both
\* the current and the original price were found and the original price is
\* above zero, and then it is ((original - current) / original) * 100
\* rounded to two decimals
C13_AsStated ==
    pc = "scraped" =>
        LET current == ex_product["current_price"]
            original == ex_product["original_price"]
            discount == ex_product["discount_percentage"]
        IN /\ HasFloat(discount) <=>
                (HasFloat(current) /\ HasFloat(original) /\ original.n > 0)
           /\ HasFloat(discount) =>
                NearestHundredth(discount_of(current, original), discount)

\* a current price of zero and an original price of 100 were found, and no
\* discount was stored
C13_Witness ==
    /\ pc = "scraped"
    /\ ex_product["current_price"] = RZero
    /\ ex_product["original_price"] = Rat(100, 1)
    /\ ex_product["discount_percentage"] = NoFloat

\* C13, where the code agrees with it: a stored discount comes with both
\* prices found and an original price above zero, and it is the rounded
\* value of the formula (80 against 100 gives 20.00)
C13_DiscountIsRoundedFormula ==
    pc = "scraped" =>
        LET current == ex_product["current_price"]
            original == ex_product["original_price"]
            discount == ex_product["discount_percentage"]
        IN /\ HasFloat(discount) =>
                /\ HasFloat(current) /\ HasFloat(original) /\ original.n > 0
                /\ NearestHundredth(discount_of(current, original), discount)
           /\ (current = Rat(80, 1) /\ original = Rat(100, 1)) =>
                discount = Rat(20, 1)

\* C14: a discount_percentage that extraction sets lies within [0, 100]; it
\* is never negative when the current price exceeds the original price
C14_AsStated ==
    /\ (pc = "scraped" /\ HasFloat(ex_product["discount_percentage"])) =>
          /\ RGe(ex_product["discount_percentage"], RZero)
          /\ RLe(ex_product["discount_percentage"], Rat(100, 1))
    /\ (pc = "parsed" /\ pp_result.raised = ""
            /\ "discount_percentage" \in DOMAIN pp_result.data) =>
          /\ RGe(pp_result.data["discount_percentage"], RZero)
          /\ RLe(pp_result.data["discount_percentage"], Rat(100, 1))

\* a current price of 120 was found with an original price of 100, and the
\* discount stored is -20
C14_Witness ==
    /\ pc = "scraped"
    /\ ex_product["current_price"] = Rat(120, 1)
    /\ ex_product["original_price"] = Rat(100, 1)
    /\ ex_product["discount_percentage"] = Rat(-20, 1)

\* C14, where the code agrees with it: a discount that extraction sets is
\* never above 100, and it is at least 0 when the original price is not
\* below the current price
C14_DiscountAtMost100 ==
    (pc = "scraped" /\ HasFloat(ex_product["discount_percentage"])) =>
        /\ RLe(ex_product["discount_percentage"], Rat(100, 1))
        /\ RGe(ex_product["original_price"], ex_product["current_price"]) =>
              RGe(ex_product["discount_percentage"], RZero)

(***************************************************************************)
(* DataNormalizer: availability, price and specifications; and the text    *)
(* helper PremiumBaseScraper._extract_price.                               *)
(***************************************************************************)
\* availability_map of normalize_availability, as its set of items
availability_map ==
    {
      [key |-> <<"i", "n", " ", "s", "t", "o", "c", "k">>,
       value |-> "in_stock"],
      [key |-> <<"a", "v", "a", "i", "l", "a", "b", "l", "e">>,
       value |-> "in_stock"],
      [key |-> <<"i", "n", "-", "s", "t", "o", "c", "k">>,
       value |-> "in_stock"],
      [key |-> <<"s", "t", "o", "c", "k">>,
       value |-> "in_stock"],
      [key |-> <<"o", "u", "t", " ", "o", "f", " ", "s", "t", "o", "c", "k">>,
       value |-> "out_of_stock"],
      [key |-> <<"o", "u", "t", "-", "o", "f", "-", "s", "t", "o", "c", "k">>,
       value |-> "out_of_stock"],
      [key |-> <<"u", "n", "a", "v", "a", "i", "l", "a", "b", "l", "e">>,
       value |-> "out_of_stock"],
      [key |-> <<"n", "o", "t", " ", "a", "v", "a", "i", "l", "a", "b", "l", "e">>,
       value |-> "out_of_stock"],
      [key |-> <<"p", "r", "e", "-", "o", "r", "d", "e", "r">>,
       value |-> "pre_order"],
      [key |-> <<"p", "r", "e", "o", "r", "d", "e", "r">>,
       value |-> "pre_order"],
      [key |-> <<"c", "o", "m", "i", "n", "g", " ", "s", "o", "o", "n">>,
       value |-> "pre_order"],
      [key |-> <<"l", "i", "m", "i", "t", "e", "d", " ", "s", "t", "o", "c", "k">>,
       value |-> "limited_stock"],
      [key |-> <<"l", "o", "w", " ", "s", "t", "o", "c", "k">>,
       value |-> "limited_stock"],
      [key |-> <<"f", "e", "w", " ", "l", "e", "f", "t">>,
       value |-> "limited_stock"] }

\* DataNormalizer.normalize_availability
normalize_availability(availability) ==
    IF availability = <<>> THEN "unknown"
    ELSE LET availability_lower == Strip(Lower(availability))
             found == {item \in availability_map : item.key = availability_lower}
         IN IF found = {} THEN "unknown"
            ELSE (CHOOSE item \in found : TRUE).value

\* DataNormalizer.normalize_price
normalize_price(price_str) ==
    IF price_str = <<>> THEN NoFloat
    ELSE LET cleaned == float_of(Keep(price_str, Digits \cup {"."}))
         IN IF cleaned.error THEN NoFloat ELSE cleaned.value

\* str.replace(old, new) of one character by a string
RECURSIVE Replace(_, _, _)
Replace(s, old, new) ==
    IF s = <<>> THEN <<>>
    ELSE (IF Head(s) = old THEN new ELSE <<Head(s)>>)
            \o Replace(Tail(s), old, new)

\* the text after the last comma: the last of price_text.split(',')
RECURSIVE AfterLastComma(_)
AfterLastComma(s) ==
    IF "," \in Range(s) THEN AfterLastComma(Tail(DropUntil(s, {","}))) ELSE s

\* PremiumBaseScraper._extract_price(price_text)
base_extract_price(price_text) ==
    IF price_text = <<>> THEN NoFloat
    ELSE LET kept == Keep(price_text, Digits \cup {".", ","})
             commas == Len(Keep(kept, {","}))
             separated ==
                IF commas > 0 /\ "." \in Range(kept) THEN Replace(kept, ",", <<>>)
                ELSE IF commas > 0
                THEN IF commas + 1 = 2 /\ Len(AfterLastComma(kept)) <= 2
                     THEN Replace(kept, ",", <<".">>)
                     ELSE Replace(kept, ",", <<>>)
                ELSE kept
             parsed == float_of(separated)
         IN IF parsed.error THEN NoFloat ELSE parsed.value

\* DataNormalizer.normalize_specifications on the items of specs, in the
\* order of the dict, from the k-th on
RECURSIVE normalize_specifications_from(_, _, _)
normalize_specifications_from(items, k, normalized) ==
    IF k > Len(items) THEN normalized
    ELSE LET normalized_key == CollapseWhitespace(Strip(Lower(items[k].key)))
             normalized_value == Strip(items[k].value)
         IN normalize_specifications_from(items, k + 1,
               IF normalized_value # <<>>
               THEN Put(normalized, normalized_key, normalized_value)
               ELSE normalized)

normalize_specifications(items) ==
    normalize_specifications_from(items, 1, EmptyDict)

(***************************************************************************)
(* Arguments of the normalizers.                                           *)
(***************************************************************************)
T_In_Stock == <<"I", "n", " ", "S", "t", "o", "c", "k">>
T_IN_STOCK_sp == <<" ", "I", "N", " ", "S", "T", "O", "C", "K", " ">>
T_Unavailable == <<"U", "n", "a", "v", "a", "i", "l", "a", "b", "l", "e">>
T_Pre_Order == <<"P", "r", "e", "-", "O", "r", "d", "e", "r">>
T_few_left == <<"f", "e", "w", " ", "l", "e", "f", "t">>
T_Out_of_Stock_dot == <<"O", "u", "t", " ", "o", "f", " ", "S", "t", "o",
    "c", "k", ".">>
T_19c99 == <<"1", "9", ",", "9", "9">>
T_1c299 == <<"1", ",", "2", "9", "9">>
T_12c5 == <<"1", "2", ",", "5">>
T_1c23c4 == <<"1", ",", "2", "3", ",", "4">>
T_abc == <<"a", "b", "c">>
T_1p2p3 == <<"1", ".", "2", ".", "3">>
T_e1p299c00 == <<"€", "1", ".", "2", "9", "9", ",", "0", "0">>
T_19p99 == <<"1", "9", ".", "9", "9">>
T_Color == <<"C", "o", "l", "o", "r">>
T_color_sp == <<" ", "c", "o", "l", "o", "r", " ">>
T_Item_Weight == <<"I", "t", "e", "m", " ", " ", "W", "e", "i", "g", "h",
    "t">>
T_red == <<"r", "e", "d">>
T_blue == <<" ", "b", "l", "u", "e", " ">>
T_blank == <<" ", " ">>

MaxSpecs == 3

TextPool ==
    { <<>>, T_only2left, T_unavailable, T_zzz, T_Limited, T_In_Stock,
      T_IN_STOCK_sp, T_Unavailable, T_Pre_Order, T_few_left,
      T_Out_of_Stock_dot, T_1299, T_19c99, T_1c299, T_12c5, T_1c23c4, T_abc,
      T_1p2p3, T_e1p299c00, T_19p99, T_d80, T_0 }

\* the items of a specifications dict: no key twice
SpecsPool ==
    { items \in SeqsUpTo({[key |-> k, value |-> v] :
                             k \in {T_Color, T_color_sp, T_Item_Weight},
                             v \in {T_red, T_blue, T_blank}}, MaxSpecs) :
        \A i, j \in 1..Len(items) : items[i].key = items[j].key => i = j }

InitNormalize ==
    /\ pc = "init"
    /\ deduplicator = ProductDeduplicator_init
    /\ fd_products = <<>>
    /\ fd_result = <<>>
    /\ md_group = <<>>
    /\ md_call = <<>>
    /\ md_merged = EmptyDict
    /\ CurateIdle
    /\ QualityIdle
    /\ ExtractIdle
    /\ MonitoringIdle
    /\ \/ nm_text \in TextPool /\ nm_specs = <<>>
       \/ nm_text = <<>> /\ nm_specs \in SpecsPool
    /\ nm_result = [op |-> "", value |-> <<>>]
    /\ SearchIdle
    /\ MonitorIdle
    /\ RequestIdle

\* DataNormalizer.normalize_availability on the text
NormalizeAvailability ==
    /\ pc = "init"
    /\ nm_result' = [op |-> "normalize_availability",
                     value |-> normalize_availability(nm_text)]
    /\ pc' = "returned"
    /\ UNCHANGED <<dedup_vars, merge_vars, curate_vars, quality_vars,
                   monitoring_vars,
                   extract_vars, nm_text, nm_specs, search_vars, monitor_vars,
                   request_vars>>

\* _extract_availability on a page whose availability element has the text
ExtractAvailability ==
    /\ pc = "init"
    /\ nm_result' =
          [op |-> "_extract_availability",
           value |-> amazon_extract_availability(
                        [s \in {"#availability span"} |-> nm_text], 1)]
    /\ pc' = "returned"
    /\ UNCHANGED <<dedup_vars, merge_vars, curate_vars, quality_vars,
                   monitoring_vars,
                   extract_vars, nm_text, nm_specs, search_vars, monitor_vars,
                   request_vars>>

\* DataNormalizer.normalize_price on the text
NormalizePrice ==
    /\ pc = "init"
    /\ nm_result' = [op |-> "normalize_price", value |-> normalize_price(nm_text)]
    /\ pc' = "returned"
    /\ UNCHANGED <<dedup_vars, merge_vars, curate_vars, quality_vars,
                   monitoring_vars,
                   extract_vars, nm_text, nm_specs, search_vars, monitor_vars,
                   request_vars>>

\* PremiumBaseScraper._extract_price on the text
ExtractPrice ==
    /\ pc = "init"
    /\ nm_result' = [op |-> "_extract_price", value |-> base_extract_price(nm_text)]
    /\ pc' = "returned"
    /\ UNCHANGED <<dedup_vars, merge_vars, curate_vars, quality_vars,
                   monitoring_vars,
                   extract_vars, nm_text, nm_specs, search_vars, monitor_vars,
                   request_vars>>

\* DataNormalizer.normalize_specifications on the items
NormalizeSpecifications ==
    /\ pc = "init"
    /\ nm_result' = [op |-> "normalize_specifications",
                     value |-> normalize_specifications(nm_specs)]
    /\ pc' = "returned"
    /\ UNCHANGED <<dedup_vars, merge_vars, curate_vars, quality_vars,
                   monitoring_vars,
                   extract_vars, nm_text, nm_specs, search_vars, monitor_vars,
                   request_vars>>

NextNormalize ==
    \/ NormalizeAvailability
    \/ ExtractAvailability
    \/ NormalizePrice
    \/ ExtractPrice
    \/ NormalizeSpecifications

SpecNormalize == InitNormalize /\ [][NextNormalize]_vars

(***************************************************************************)
(* Claims about the normalizers (SpecNormalize).                           *)
(***************************************************************************)
AvailabilityStatus ==
    {"in_stock", "out_of_stock", "pre_order", "limited_stock", "unknown"}

\* nm_result is the value that the operation returned for the text
Gave(op, text, value) ==
    (nm_result.op = op /\ nm_text = text) => nm_result.value = value

\* C15: availability normalization returns one of the five enum values and
\* maps by phrase, whatever the case: "In Stock, only 2 left" gives
\* limited_stock, "Currently unavailable" gives out_of_stock and "zzz" gives
\* unknown
C15_AsStated ==
    /\ nm_result.op \in {"normalize_availability", "_extract_availability"} =>
          nm_result.value \in AvailabilityStatus
    /\ \A op \in {"normalize_availability", "_extract_availability"} :
          /\ Gave(op, T_only2left, "limited_stock")
          /\ Gave(op, T_unavailable, "out_of_stock")
          /\ Gave(op, T_zzz, "unknown")

\* normalize_availability returned unknown for "In Stock, only 2 left"
C15_Witness ==
    /\ nm_result.op = "normalize_availability"
    /\ nm_text = T_only2left
    /\ nm_result.value = "unknown"

\* C15, where the code agrees with it: the value is one of the five enum
\* values, "zzz" gives unknown, and the texts that are a phrase of the map
\* are mapped whatever their case and surrounding blanks
C15_EnumAndExactPhrases ==
    /\ nm_result.op \in {"normalize_availability", "_extract_availability"} =>
          nm_result.value \in AvailabilityStatus
    /\ \A op \in {"normalize_availability", "_extract_availability"} :
          /\ Gave(op, T_zzz, "unknown")
          /\ Gave(op, T_IN_STOCK_sp, "in_stock")
          /\ Gave(op, T_Pre_Order, "pre_order")
    /\ Gave("normalize_availability", T_Unavailable, "out_of_stock")
    /\ Gave("normalize_availability", T_few_left, "limited_stock")

\* C16: price normalization reads a comma as a thousands separator unless
\* exactly two digits follow it at the end of the text, where it is the
\* decimal separator: "$1,299.00" gives 1299.00, "19,99" gives 19.99,
\* "1,299" gives 1299 and "12,5" gives 125; an unparsable text gives None
C16_AsStated ==
    \A op \in {"normalize_price", "_extract_price"} :
        /\ Gave(op, T_1299, Rat(1299, 1))
        /\ Gave(op, T_19c99, Rat(1999, 100))
        /\ Gave(op, T_1c299, Rat(1299, 1))
        /\ Gave(op, T_12c5, Rat(125, 1))
        /\ Gave(op, T_abc, NoFloat)
        /\ Gave(op, T_1p2p3, NoFloat)

\* normalize_price returned 1999 for "19,99"
C16_Witness ==
    /\ nm_result.op = "normalize_price"
    /\ nm_text = T_19c99
    /\ nm_result.value = Rat(1999, 1)

\* C16, where the code agrees with it: both functions give 1299 for
\* "$1,299.00" and for "1,299" and None for an unparsable text, and
\* _extract_price gives 19.99 for "19,99"
C16_ThousandsAndUnparsable ==
    /\ \A op \in {"normalize_price", "_extract_price"} :
          /\ Gave(op, T_1299, Rat(1299, 1))
          /\ Gave(op, T_1c299, Rat(1299, 1))
          /\ Gave(op, T_abc, NoFloat)
          /\ Gave(op, T_1p2p3, NoFloat)
          /\ Gave(op, <<>>, NoFloat)
    /\ Gave("_extract_price", T_19c99, Rat(1999, 100))

\* the items of the argument whose key normalizes to the key and whose value
\* is not empty after trimming, as indices in input order
SpItemsOf(key) ==
    {i \in 1..Len(nm_specs) :
        /\ CollapseWhitespace(Strip(Lower(nm_specs[i].key))) = key
        /\ Strip(nm_specs[i].value) # <<>>}

\* the keys of the result are the normalized keys of the items with a value,
\* and no value of the result is empty
SpKeysAndValues ==
    nm_result.op = "normalize_specifications" =>
        /\ \A key \in DOMAIN nm_result.value :
              /\ key = CollapseWhitespace(Strip(Lower(key)))
              /\ SpItemsOf(key) # {}
              /\ nm_result.value[key] # <<>>
        /\ \A i \in 1..Len(nm_specs) :
              Strip(nm_specs[i].value) # <<>> =>
                 CollapseWhitespace(Strip(Lower(nm_specs[i].key)))
                    \in DOMAIN nm_result.value

SpMin(S) == CHOOSE i \in S : \A j \in S : i <= j
SpMax(S) == CHOOSE i \in S : \A j \in S : i >= j

\* C17: normalize_specifications returns lower-cased, trimmed,
\* whitespace-collapsed keys, drops the entries whose value is empty after
\* trimming, and for keys that normalize to the same key keeps the first
\* non-empty value in input order
C17_AsStated ==
    /\ SpKeysAndValues
    /\ nm_result.op = "normalize_specifications" =>
          \A key \in DOMAIN nm_result.value :
              nm_result.value[key] = Strip(nm_specs[SpMin(SpItemsOf(key))].value)

\* "Color" with "red" came before " color " with " blue ", and the result
\* holds "blue" for "color"
C17_Witness ==
    /\ nm_result.op = "normalize_specifications"
    /\ nm_specs = <<[key |-> T_Color, value |-> T_red],
                    [key |-> T_color_sp, value |-> T_blue]>>
    /\ nm_result.value = [k \in {Lower(T_Color)} |-> Strip(T_blue)]

\* C17, where the code agrees with it: normalized keys, no empty value, and
\* for keys that normalize to the same key the last non-empty value
C17_KeepsLastValue ==
    /\ SpKeysAndValues
    /\ nm_result.op = "normalize_specifications" =>
          \A key \in DOMAIN nm_result.value :
              nm_result.value[key] = Strip(nm_specs[SpMax(SpItemsOf(key))].value)

\* the selectors of the price, original price, rating and review count
\* extractors
NumericSelectors ==
    UNION {Range(amazon_selectors[method]) : method \in DOMAIN amazon_selectors}

\* C18: field extraction never raises; a page on which a price, rating or
\* review-count locator matches is parsed into a record, not an exception
C18_AsStated == pc = "parsed" => pp_result.raised = ""

\* the page has an element for the first price locator, and parsing it
\* raised AttributeError
C18_Witness ==
    /\ pc = "parsed"
    /\ ".a-price-whole" \in DOMAIN ex_page
    /\ pp_result.raised = "AttributeError"

\* C18, where the code agrees with it: a page on which none of the price,
\* rating and review-count locators matches is parsed into a record with
\* these fields empty; parsing raises exactly when one of them matches
C18_ParsedWhenNoLocatorMatches ==
    pc = "parsed" =>
        /\ pp_result.raised = "" <=> DOMAIN ex_page \cap NumericSelectors = {}
        /\ pp_result.raised = "" =>
              /\ pp_result.data["price"] = NoFloat
              /\ pp_result.data["rating"] = NoFloat
              /\ pp_result.data["review_count"] = NoFloat
              /\ "discount_percentage" \notin DOMAIN pp_result.data
              /\ pp_result.data["availability"] \in AvailabilityStatus

(***************************************************************************)
(* PremiumBaseScraper.scrape_search_results and scrape_product.  What a    *)
(* request gives is an option: {} when _make_request returns None, {c}     *)
(* when it returns the content c.  The content of a listing page is the    *)
(* number of product links on it; the content of a product page is a page. *)
(***************************************************************************)
MaxPages == 2
MaxUrls == 2

ProductPages ==
    { [s \in {"#availability span"} |-> T_In_Stock],
      [s \in {".a-price-whole"} |-> T_80] }

\* _extract_product_urls: the links of the listing page, each one once
extract_product_urls(page, content) ==
    [k \in 1..content |-> [page |-> page, item |-> k]]

\* PremiumBaseScraper.scrape_product, given what the request gives
scrape_product(url, content) ==
    IF content = {}
    THEN [success |-> FALSE, data |-> EmptyDict,
          error |-> "Failed to fetch page", url |-> url]
    ELSE LET product_data == parse_product_page(CHOOSE c \in content : TRUE)
         IN IF product_data.raised # ""
            THEN [success |-> FALSE, data |-> EmptyDict,
                  error |-> product_data.raised, url |-> url]
            ELSE [success |-> TRUE, data |-> product_data.data,
                  error |-> "", url |-> url]

\* a break in place of the continue
after_failed_fetch_abort(page, max_pages) == max_pages + 1

\* `if not content: continue`: the page the loop goes on with
after_failed_fetch(page, max_pages) == page + 1

InitScrape ==
    /\ deduplicator = ProductDeduplicator_init
    /\ fd_products = <<>>
    /\ fd_result = <<>>
    /\ md_group = <<>>
    /\ md_call = <<>>
    /\ md_merged = EmptyDict
    /\ CurateIdle
    /\ QualityIdle
    /\ ExtractIdle
    /\ MonitoringIdle
    /\ NormalizeIdle
    /\ MonitorIdle
    /\ RequestIdle
    /\ pc = "scrape"
    /\ ss_max_pages \in 1..MaxPages
    /\ ss_page = 1
    /\ ss_product_urls = <<>>
    /\ ss_results = <<>>
    /\ ss_fetched = <<>>
    /\ ss_served = <<>>

\* one iteration of the loop over pages, up to its loop over the products
FetchListingPage ==
    /\ pc = "scrape"
    /\ ss_product_urls = <<>>
    /\ ss_page <= ss_max_pages
    /\ \E content \in {{}} \cup {{n} : n \in 0..MaxUrls} :
          /\ ss_fetched' = Append(ss_fetched, [page |-> ss_page, content |-> content])
          /\ IF content = {}
             THEN /\ ss_page' = after_failed_fetch(ss_page, ss_max_pages)
                  /\ UNCHANGED ss_product_urls
             ELSE LET product_urls ==
                        extract_product_urls(ss_page, CHOOSE n \in content : TRUE)
                  IN /\ ss_product_urls' = product_urls
                     /\ ss_page' = IF product_urls = <<>> THEN ss_page + 1
                                   ELSE ss_page
    /\ UNCHANGED <<pc, dedup_vars, merge_vars, curate_vars, quality_vars,
                   monitoring_vars,
                   extract_vars, normalize_vars, monitor_vars, request_vars,
                   ss_max_pages,
                   ss_results, ss_served>>

\* one iteration of the loop over the products of the page
ScrapeProduct ==
    /\ pc = "scrape"
    /\ ss_product_urls # <<>>
    /\ \E content \in {{}} \cup {{page} : page \in ProductPages} :
          /\ ss_served' = Append(ss_served, [url |-> Head(ss_product_urls),
                                             content |-> content])
          /\ ss_results' = Append(ss_results,
                                  scrape_product(Head(ss_product_urls), content))
    /\ ss_product_urls' = Tail(ss_product_urls)
    /\ ss_page' = IF Tail(ss_product_urls) = <<>> THEN ss_page + 1 ELSE ss_page
    /\ UNCHANGED <<pc, dedup_vars, merge_vars, curate_vars, quality_vars,
                   monitoring_vars,
                   extract_vars, normalize_vars, monitor_vars, request_vars,
                   ss_max_pages,
                   ss_fetched>>

\* the loop over pages is over: return results
ReturnResults ==
    /\ pc = "scrape"
    /\ ss_product_urls = <<>>
    /\ ss_page > ss_max_pages
    /\ pc' = "scrape_done"
    /\ UNCHANGED <<dedup_vars, merge_vars, curate_vars, quality_vars,
                   monitoring_vars,
                   extract_vars, normalize_vars, monitor_vars, search_vars,
                   request_vars>>

(***************************************************************************)
(* main.py: the update loop of monitor_price_changes.  What the scraper    *)
(* function gives for a record is an exception or the updated price.       *)
(***************************************************************************)
MaxRecords == 3

scraper_map == {"amazon", "walmart", "target", "bestbuy"}

MonitorPool ==
    [id : {"p"}, retailer : {"amazon", "ebay"}, source_url : {{}, {"u"}},
     current_price : {None, 100}, updated : {FALSE}]

ScraperOutcomes ==
    [raised : {TRUE}, current_price : {None}]
        \cup [raised : {FALSE}, current_price : {None, 80, 100}]

\* the record reaches the call of its scraper function
reaches_scraper(product) ==
    product.source_url # {} /\ product.retailer \in scraper_map

\* a price_change for every price found, whatever the stored price
price_change_always(product, updated_data) ==
    IF TruthyNum(updated_data.current_price)
    THEN << [product_id |-> product.id, old_price |-> product.current_price,
             new_price |-> updated_data.current_price,
             change_percentage |-> RZero] >>
    ELSE <<>>

\* the price_change stored for the record, <<>> when none is
price_change(product, updated_data) ==
    LET old_price == product.current_price
        new_price == updated_data.current_price
    IN IF TruthyNum(old_price) /\ TruthyNum(new_price) /\ old_price # new_price
       THEN << [product_id |-> product.id, old_price |-> old_price,
                new_price |-> new_price,
                change_percentage |->
                    RMul(Rat(new_price - old_price, old_price), Rat(100, 1))] >>
       ELSE <<>>

InitMonitor ==
    /\ deduplicator = ProductDeduplicator_init
    /\ fd_products = <<>>
    /\ fd_result = <<>>
    /\ md_group = <<>>
    /\ md_call = <<>>
    /\ md_merged = EmptyDict
    /\ CurateIdle
    /\ QualityIdle
    /\ ExtractIdle
    /\ MonitoringIdle
    /\ NormalizeIdle
    /\ SearchIdle
    /\ RequestIdle
    /\ pc = "monitor"
    /\ mc_products \in SeqsUpTo(MonitorPool, MaxRecords)
    /\ mc_index = 1
    /\ mc_changes = <<>>
    /\ mc_scraped = <<>>

\* one iteration of the loop over products_to_update[:10]
UpdatePrice ==
    /\ pc = "monitor"
    /\ mc_index <= Len(mc_products)
    /\ LET product == mc_products[mc_index]
       IN IF ~reaches_scraper(product)
          THEN UNCHANGED <<mc_products, mc_changes, mc_scraped>>
          ELSE \E updated_data \in ScraperOutcomes :
                  /\ mc_scraped' = Append(mc_scraped, [index |-> mc_index,
                                                       gave |-> updated_data])
                  /\ IF updated_data.raised
                     THEN UNCHANGED <<mc_products, mc_changes>>
                     ELSE /\ mc_changes' =
                                mc_changes \o price_change(product, updated_data)
                          /\ mc_products' =
                                [mc_products EXCEPT ![mc_index] =
                                    [product EXCEPT
                                        !.current_price = updated_data.current_price,
                                        !.updated = TRUE]]
    /\ mc_index' = mc_index + 1
    /\ UNCHANGED <<pc, dedup_vars, merge_vars, curate_vars, quality_vars,
                   monitoring_vars,
                   extract_vars, normalize_vars, search_vars, request_vars>>

\* the loop is over: "Price monitoring cycle completed"
CycleCompleted ==
    /\ pc = "monitor"
    /\ mc_index > Len(mc_products)
    /\ pc' = "monitor_done"
    /\ UNCHANGED <<dedup_vars, merge_vars, curate_vars, quality_vars,
                   monitoring_vars,
                   extract_vars, normalize_vars, search_vars, monitor_vars,
                   request_vars>>

InitBatch == InitScrape \/ InitMonitor

NextBatch ==
    \/ FetchListingPage
    \/ ScrapeProduct
    \/ ReturnResults
    \/ UpdatePrice
    \/ CycleCompleted

SpecBatch == InitBatch /\ [][NextBatch]_vars

(***************************************************************************)
(* Claims about the batch operations (SpecBatch).                          *)
(***************************************************************************)
\* the urls of the listing pages fetched so far, in order
RECURSIVE BtListedUrls(_)
BtListedUrls(fetched) ==
    IF fetched = <<>> THEN <<>>
    ELSE LET last == fetched[Len(fetched)]
             before == BtListedUrls(SubSeq(fetched, 1, Len(fetched) - 1))
         IN IF last.content = {} THEN before
            ELSE before \o extract_product_urls(last.page,
                                                CHOOSE n \in last.content : TRUE)

\* the request of the product gave no content, or a content whose parsing
\* raised
BtFailed(served) ==
    \/ served.content = {}
    \/ parse_product_page(CHOOSE c \in served.content : TRUE).raised # ""

C19_FetchWitness ==
    /\ pc = "scrape_done"
    /\ Len(ss_results) = 2
    /\ ~ss_results[1].success /\ ss_results[1].error = "Failed to fetch page"
    /\ ss_results[2].success

\* a monitoring cycle ended: the scraper function raised on the first
\* record and the second record was updated
C19_MonitorWitness ==
    /\ pc = "monitor_done"
    /\ Len(mc_scraped) >= 2
    /\ mc_scraped[1].index = 1 /\ mc_scraped[1].gave.raised
    /\ mc_scraped[2].index = 2 /\ mc_products[2].updated

(***************************************************************************)
(* PremiumBaseScraper._make_request called concurrently on one scraper.    *)
(* A call is at "called" (waiting for a permit), "sleeping" (inside        *)
(* asyncio.sleep(request_delay), permit held), "requesting" (the GET is    *)
(* issued, permit held) or "returned".                                     *)
(***************************************************************************)
MaxCalls == 6

max_concurrent_requests == 5

Calls == 1..MaxCalls

\* a semaphore exit that keeps the permit when the body caught an exception
semaphore_exit_leaky(value, response) ==
    IF response = "exception" THEN value ELSE value + 1

\* __aexit__ of `async with self.semaphore`: release()
semaphore_exit(value, response) == value + 1

\* what _make_request returns for the response
returned_for(response) == IF response = "200" THEN "text" ELSE "None"

InitRequests ==
    /\ deduplicator = ProductDeduplicator_init
    /\ fd_products = <<>>
    /\ fd_result = <<>>
    /\ md_group = <<>>
    /\ md_call = <<>>
    /\ md_merged = EmptyDict
    /\ CurateIdle
    /\ QualityIdle
    /\ ExtractIdle
    /\ MonitoringIdle
    /\ NormalizeIdle
    /\ SearchIdle
    /\ MonitorIdle
    /\ pc = "requests"
    /\ mr_at = [c \in Calls |-> "called"]
    /\ mr_result = [c \in Calls |-> "pending"]
    /\ semaphore = max_concurrent_requests
    /\ session \in BOOLEAN

\* __aenter__ of `async with self.semaphore`: acquire() takes a permit, and
\* the body starts asyncio.sleep(self.request_delay)
Acquire(c) ==
    /\ pc = "requests"
    /\ mr_at[c] = "called"
    /\ semaphore > 0
    /\ semaphore' = semaphore - 1
    /\ mr_at' = [mr_at EXCEPT ![c] = "sleeping"]
    /\ UNCHANGED <<pc, dedup_vars, merge_vars, curate_vars, quality_vars,
                   monitoring_vars,
                   extract_vars, normalize_vars, search_vars, monitor_vars,
                   mr_result, session>>

\* the sleep is over: the session is created if there is none and the GET
\* is issued
IssueRequest(c) ==
    /\ pc = "requests"
    /\ mr_at[c] = "sleeping"
    /\ session' = TRUE
    /\ mr_at' = [mr_at EXCEPT ![c] = "requesting"]
    /\ UNCHANGED <<pc, dedup_vars, merge_vars, curate_vars, quality_vars,
                   monitoring_vars,
                   extract_vars, normalize_vars, search_vars, monitor_vars,
                   mr_result, semaphore>>

\* the sleep is over and creating the session raises: the except clause
\* returns None and the permit is released
SessionFails(c) ==
    /\ pc = "requests"
    /\ mr_at[c] = "sleeping"
    /\ ~session
    /\ mr_at' = [mr_at EXCEPT ![c] = "returned"]
    /\ mr_result' = [mr_result EXCEPT ![c] = returned_for("exception")]
    /\ semaphore' = semaphore_exit(semaphore, "exception")
    /\ UNCHANGED <<pc, dedup_vars, merge_vars, curate_vars, quality_vars,
                   monitoring_vars,
                   extract_vars, normalize_vars, search_vars, monitor_vars,
                   session>>

\* the GET ends with status 200, with another status or with an exception;
\* the call returns and the permit is released
Respond(c) ==
    /\ pc = "requests"
    /\ mr_at[c] = "requesting"
    /\ \E response \in {"200", "404", "exception"} :
          /\ mr_result' = [mr_result EXCEPT ![c] = returned_for(response)]
          /\ semaphore' = semaphore_exit(semaphore, response)
    /\ mr_at' = [mr_at EXCEPT ![c] = "returned"]
    /\ UNCHANGED <<pc, dedup_vars, merge_vars, curate_vars, quality_vars,
                   monitoring_vars,
                   extract_vars, normalize_vars, search_vars, monitor_vars,
                   session>>

NextRequests ==
    \E c \in Calls :
        \/ Acquire(c)
        \/ IssueRequest(c)
        \/ SessionFails(c)
        \/ Respond(c)

SpecRequests == InitRequests /\ [][NextRequests]_vars

(***************************************************************************)
(* Claims about concurrent requests (SpecRequests).                        *)
(***************************************************************************)
\* the calls between taking a permit and releasing it
MrInFlight == {c \in DOMAIN mr_at : mr_at[c] \in {"sleeping", "requesting"}}

\* the permits and the calls in flight
MrPermits ==
    pc = "requests" =>
        /\ Cardinality(MrInFlight) <= max_concurrent_requests
        /\ semaphore + Cardinality(MrInFlight) = max_concurrent_requests
        /\ (\A c \in Calls : mr_at[c] = "returned") =>
              semaphore = max_concurrent_requests
        /\ \A c \in Calls : mr_at[c] = "returned" <=> mr_result[c] # "pending"

\* a call starts its request only out of the sleep, and starts the sleep only
\* by taking a permit that was free
MrDelay ==
    \A c \in DOMAIN mr_at :
        /\ (mr_at'[c] = "requesting" /\ mr_at[c] # "requesting") =>
              mr_at[c] = "sleeping"
        /\ (mr_at'[c] = "sleeping" /\ mr_at[c] # "sleeping") =>
              (mr_at[c] = "called" /\ semaphore > 0 /\ semaphore' = semaphore - 1)

\* C20: under any interleaving of _make_request calls the number of calls
\* between permit acquisition and release never exceeds
\* max_concurrent_requests (5); a call issues its request only after the
\* sleep it starts when it acquires its permit; every exit returns the
\* permit, so the free permits and the calls in flight always add up to 5
\* and all 5 permits are free once every call has returned
C20_PermitsBoundInFlight == []MrPermits /\ [][MrDelay]_vars

\* five calls hold the five permits, a sixth waits for one, and a call
\* among the five has issued its request
C20_Witness ==
    /\ pc = "requests"
    /\ semaphore = 0
    /\ Cardinality(MrInFlight) = max_concurrent_requests
    /\ \E c \in Calls : mr_at[c] = "called"
    /\ \E c \in Calls : mr_at[c] = "requesting"

\* every call has returned, one of them after an exception or a status
\* other than 200, and the five permits are free
C20_AllReturned ==
    /\ pc = "requests"
    /\ \A c \in Calls : mr_at[c] = "returned"
    /\ \E c \in Calls : mr_result[c] = "None"
    /\ semaphore = max_concurrent_requests

(***************************************************************************)
(* main.py: price monitoring.  start_price_monitoring creates a task that  *)
(* runs schedule_price_monitoring; each task repeats monitor_price_changes *)
(* and a sleep.  A task runs from one await to the next without            *)
(* interruption: it is "due" (about to call monitor_price_changes),        *)
(* "fetching" (awaiting the scraper function for a record), "pausing"      *)
(* (in asyncio.sleep(1) after an update) or "sleeping" (between cycles).   *)
(* last_updated is kept as the record's age in seconds, up to the age      *)
(* after which the record counts as stale whatever its exact value.        *)
(***************************************************************************)
MaxCatalog == 11
MaxLoops == 2
MaxCycles == 2

staleness_window == 3600
batch_cap == 10
cycle_interval == 3600
backoff_interval == 300

Min(a, b) == IF a <= b THEN a ELSE b

\* the ages of the records once the seconds have passed
elapse(db, seconds) ==
    [i \in 1..Len(db) |->
        [db[i] EXCEPT !.age = Min(db[i].age + seconds, staleness_window + 1)]]

\* (current_time - last_updated).total_seconds() > 3600
needs_update(product) == product.age > staleness_window

\* the first loop of monitor_price_changes: the records needing an update,
\* each with the age it has now, from the k-th record on
RECURSIVE products_needing_update(_, _)
products_needing_update(db, k) ==
    IF k > Len(db) THEN <<>>
    ELSE (IF needs_update(db[k]) THEN <<[index |-> k, age |-> db[k].age]>>
          ELSE <<>>) \o products_needing_update(db, k + 1)

\* the whole list in place of its first 10
no_batch_cap(products_to_update) == products_to_update

\* products_to_update[:10]
first_batch(products_to_update) ==
    SubSeq(products_to_update, 1, Min(batch_cap, Len(products_to_update)))

\* schedule_price_monitoring: the sleep after monitor_price_changes, which
\* is the backoff when an exception escaped it
sleep_after(escaped) == IF escaped THEN backoff_interval ELSE cycle_interval

\* the update loop from the k-th selected record on, up to its next await:
\* the task awaits the scraper function for the first record with a url and
\* a supported retailer, or the loop ends and the cycle is completed
RECURSIVE next_await(_, _, _)
next_await(loop, db, k) ==
    IF k > Len(loop.products_to_update)
    THEN [loop EXCEPT !.at = "sleeping", !.index = 0, !.cycle = "completed",
                      !.sleep = sleep_after(FALSE)]
    ELSE IF reaches_scraper(db[loop.products_to_update[k].index])
    THEN [loop EXCEPT !.at = "fetching", !.index = k,
                      !.refetched = loop.refetched + 1]
    ELSE next_await(loop, db, k + 1)

NewLoop ==
    [at |-> "due", products_to_update |-> <<>>, index |-> 0, refetched |-> 0,
     cycle |-> "", sleep |-> 0]

\* what the site gives for the record's url: an exception of the scraper
\* function or the price on the page
Raises == [raised |-> TRUE, current_price |-> None]
Gives(price) == [raised |-> FALSE, current_price |-> price]

\* start_price_monitoring: a new task runs schedule_price_monitoring
StartPriceMonitoring ==
    /\ pc = "monitoring"
    /\ pm_starts > 0
    /\ pm_starts' = pm_starts - 1
    /\ pm_loops' = Append(pm_loops, NewLoop)
    /\ UNCHANGED <<pc, dedup_vars, merge_vars, curate_vars, quality_vars,
                   extract_vars, normalize_vars, search_vars, monitor_vars,
                   request_vars, products_db, price_changes, pm_cycles>>

\* monitor_price_changes up to its first await: the stale records are
\* collected, the first 10 are kept and the update loop starts
StartCycle(l) ==
    /\ pc = "monitoring"
    /\ l \in DOMAIN pm_loops
    /\ pm_loops[l].at = "due"
    /\ pm_cycles # 0
    /\ pm_cycles' = IF pm_cycles > 0 THEN pm_cycles - 1 ELSE pm_cycles
    /\ pm_loops' =
          [pm_loops EXCEPT ![l] =
              next_await([NewLoop EXCEPT !.products_to_update =
                              first_batch(products_needing_update(products_db, 1))],
                         products_db, 1)]
    /\ UNCHANGED <<pc, dedup_vars, merge_vars, curate_vars, quality_vars,
                   extract_vars, normalize_vars, search_vars, monitor_vars,
                   request_vars, products_db, price_changes, pm_starts>>

\* monitor_price_changes raises outside the update loop's try: its outer
\* except logs the error and the function returns
CycleFails(l) ==
    /\ pc = "monitoring"
    /\ l \in DOMAIN pm_loops
    /\ pm_loops[l].at = "due"
    /\ pm_cycles # 0
    /\ pm_cycles' = IF pm_cycles > 0 THEN pm_cycles - 1 ELSE pm_cycles
    /\ pm_loops' = [pm_loops EXCEPT ![l] =
                       [NewLoop EXCEPT !.at = "sleeping", !.cycle = "failed",
                                       !.sleep = sleep_after(FALSE)]]
    /\ UNCHANGED <<pc, dedup_vars, merge_vars, curate_vars, quality_vars,
                   extract_vars, normalize_vars, search_vars, monitor_vars,
                   request_vars, products_db, price_changes, pm_starts>>

\* the scraper function returns or raises for the record awaited
FetchReturns(l) ==
    /\ pc = "monitoring"
    /\ l \in DOMAIN pm_loops
    /\ pm_loops[l].at = "fetching"
    /\ LET loop == pm_loops[l]
           i == loop.products_to_update[loop.index].index
           product == products_db[i]
       IN \E updated_data \in product.serves :
             IF updated_data.raised
             THEN /\ pm_loops' = [pm_loops EXCEPT ![l] =
                                     next_await(loop, products_db, loop.index + 1)]
                  /\ UNCHANGED <<products_db, price_changes>>
             ELSE /\ price_changes' =
                        price_changes \o price_change(product, updated_data)
                  /\ products_db' =
                        [products_db EXCEPT ![i] =
                            [product EXCEPT
                                !.current_price = updated_data.current_price,
                                !.age = 0]]
                  /\ pm_loops' = [pm_loops EXCEPT ![l].at = "pausing"]
    /\ UNCHANGED <<pc, dedup_vars, merge_vars, curate_vars, quality_vars,
                   extract_vars, normalize_vars, search_vars, monitor_vars,
                   request_vars, pm_starts, pm_cycles>>

\* asyncio.sleep(1) after an update is over: the loop goes on
PauseOver(l) ==
    /\ pc = "monitoring"
    /\ l \in DOMAIN pm_loops
    /\ pm_loops[l].at = "pausing"
    /\ products_db' = elapse(products_db, 1)
    /\ pm_loops' = [pm_loops EXCEPT ![l] =
                       next_await(pm_loops[l], products_db', pm_loops[l].index + 1)]
    /\ UNCHANGED <<pc, dedup_vars, merge_vars, curate_vars, quality_vars,
                   extract_vars, normalize_vars, search_vars, monitor_vars,
                   request_vars, price_changes, pm_starts, pm_cycles>>

\* the sleep between two cycles is over
SleepOver(l) ==
    /\ pc = "monitoring"
    /\ l \in DOMAIN pm_loops
    /\ pm_loops[l].at = "sleeping"
    /\ products_db' = elapse(products_db, pm_loops[l].sleep)
    /\ pm_loops' = [pm_loops EXCEPT ![l].at = "due"]
    /\ UNCHANGED <<pc, dedup_vars, merge_vars, curate_vars, quality_vars,
                   extract_vars, normalize_vars, search_vars, monitor_vars,
                   request_vars, price_changes, pm_starts, pm_cycles>>

\* the deduplicator's variables of a run that does not deduplicate
DeduplicatorIdle ==
    /\ deduplicator = ProductDeduplicator_init
    /\ fd_products = <<>>
    /\ fd_result = <<>>
    /\ md_group = <<>>
    /\ md_call = <<>>
    /\ md_merged = EmptyDict

\* the records of the catalogs: a record that is stale, has a url and a
\* supported retailer and whose page gives the stored price; and the ways a
\* record can differ from it
StaleRecord ==
    [id |-> 0, age |-> staleness_window + 1, source_url |-> {"u"},
     retailer |-> "amazon", current_price |-> 100, serves |-> {Gives(100)}]

OtherRecords ==
    { [StaleRecord EXCEPT !.age = staleness_window],
      [StaleRecord EXCEPT !.age = 0],
      [StaleRecord EXCEPT !.source_url = {}],
      [StaleRecord EXCEPT !.retailer = "ebay"],
      [StaleRecord EXCEPT !.serves = {Raises}] }

\* a catalog of n records, the first k of them the other record
catalog_of(n, k, other) ==
    [i \in 1..n |-> [(IF i <= k THEN other ELSE StaleRecord) EXCEPT !.id = i]]

\* execute_scraping_job stores every record under a new uuid: the ids of a
\* catalog are distinct
BigCatalogs ==
    { catalog_of(n, k, other) :
        n \in {1, batch_cap, MaxCatalog}, k \in {0, 1, batch_cap},
        other \in OtherRecords }

\* small catalogs whose pages can give any outcome at every fetch
SmallRecords ==
    [id : {0}, age : {staleness_window + 1}, source_url : {{"u"}},
     retailer : {"amazon"}, current_price : {None, 100},
     serves : {ScraperOutcomes}]

SmallCatalogs ==
    { [i \in 1..Len(db) |-> [db[i] EXCEPT !.id = i]] :
        db \in SeqsUpTo(SmallRecords, 2) }

\* one task that runs for ever over a big catalog
InitMonitoringForever ==
    /\ pc = "monitoring"
    /\ DeduplicatorIdle /\ CurateIdle /\ QualityIdle /\ ExtractIdle
    /\ NormalizeIdle /\ SearchIdle /\ MonitorIdle /\ RequestIdle
    /\ products_db \in BigCatalogs
    /\ price_changes = <<>>
    /\ pm_loops = <<>>
    /\ pm_starts = 1
    /\ pm_cycles = -1

\* up to MaxLoops calls of start_price_monitoring over a small catalog,
\* followed for MaxCycles cycles
InitMonitoringSmall ==
    /\ pc = "monitoring"
    /\ DeduplicatorIdle /\ CurateIdle /\ QualityIdle /\ ExtractIdle
    /\ NormalizeIdle /\ SearchIdle /\ MonitorIdle /\ RequestIdle
    /\ products_db \in SmallCatalogs
    /\ price_changes = <<>>
    /\ pm_loops = <<>>
    /\ pm_starts \in 1..MaxLoops
    /\ pm_cycles = MaxCycles

InitMonitoring == InitMonitoringForever \/ InitMonitoringSmall

NextMonitoring ==
    \/ StartPriceMonitoring
    \/ \E l \in 1..MaxLoops :
          \/ StartCycle(l)
          \/ CycleFails(l)
          \/ FetchReturns(l)
          \/ PauseOver(l)
          \/ SleepOver(l)

SpecMonitoring == InitMonitoring /\ [][NextMonitoring]_vars

IsPrefix(s, t) == Len(s) <= Len(t) /\ SubSeq(t, 1, Len(s)) = s

\* the price change is the one of a re-fetch that returned in this step
RecordedByRefetch(event) ==
    \E l \in DOMAIN pm_loops :
        /\ pm_loops[l].at = "fetching"
        /\ pm_loops'[l].at = "pausing"
        /\ LET i == pm_loops[l].products_to_update[pm_loops[l].index].index
               old == products_db[i].current_price
               new == products_db'[i].current_price
           IN /\ event.product_id = products_db[i].id
              /\ products_db'[i].id = products_db[i].id
              /\ TruthyNum(old)
              /\ TruthyNum(new)
              /\ old # new
              /\ event.old_price = old
              /\ event.new_price = new
              /\ event.change_percentage.d # 0
              /\ event.change_percentage.n * old =
                    (new - old) * 100 * event.change_percentage.d

C22_PriceChangeStep ==
    /\ IsPrefix(price_changes, price_changes')
    /\ Len(price_changes') <= Len(price_changes) + 1
    /\ Len(price_changes') = Len(price_changes) + 1 =>
          RecordedByRefetch(price_changes'[Len(price_changes')])

C22_PriceChangeOnlyOnChange == [][C22_PriceChangeStep]_vars

\* two price changes are recorded: the first for a price that went from 100
\* to 80, which is -20 percent
C22_Witness ==
    /\ Len(price_changes) >= 2
    /\ price_changes[1].old_price = 100
    /\ price_changes[1].new_price = 80
    /\ price_changes[1].change_percentage = Rat(0 - 20, 1)
    /\ price_changes[2].product_id = price_changes[1].product_id
    /\ price_changes[2].old_price = 80

\* a re-fetch returned without a price change: the page gave no price or
\* the stored price, or the record had no price
C22_NoChangeWitness ==
    /\ price_changes = <<>>
    /\ \E l \in DOMAIN pm_loops : pm_loops[l].at = "pausing"

(***************************************************************************)
(* C23: the price-monitoring loop never terminates; after a cycle that     *)
(* completes it waits the cycle interval (3600 s) before the next cycle,   *)
(* and after a cycle that fails at cycle level it waits the backoff        *)
(* interval (300 s) before the next cycle.                                 *)
(***************************************************************************)
C23_AsStated ==
    \A l \in DOMAIN pm_loops :
        /\ pm_loops[l].at \in {"due", "fetching", "pausing", "sleeping"}
        /\ pm_loops[l].at = "sleeping" =>
              /\ pm_loops[l].cycle = "completed" =>
                    pm_loops[l].sleep = cycle_interval
              /\ pm_loops[l].cycle = "failed" =>
                    pm_loops[l].sleep = backoff_interval

\* a cycle failed at cycle level and the loop sleeps before the next cycle
C23_Witness ==
    \E l \in DOMAIN pm_loops :
        /\ pm_loops[l].at = "sleeping"
        /\ pm_loops[l].cycle = "failed"
        /\ pm_loops[l].sleep = cycle_interval

\* what the code does: the loop is always in a cycle or in a sleep, and the
\* sleep after a cycle is the cycle interval whether the cycle completed or
\* failed
C23_AlwaysCycleInterval ==
    \A l \in DOMAIN pm_loops :
        /\ pm_loops[l].at \in {"due", "fetching", "pausing", "sleeping"}
        /\ pm_loops[l].at = "sleeping" =>
              /\ pm_loops[l].cycle \in {"completed", "failed"}
              /\ pm_loops[l].sleep = cycle_interval

(***************************************************************************)
(* main.py: deduplicate_products.  The catalog is the dict products_db,    *)
(* kept as the list of its values in the order of the dict; every writer   *)
(* stores a record under the record's own id, so that the key of a record  *)
(* is its "id" field.  The handler has no await: it runs as one step.      *)
(***************************************************************************)
\* products_db[product['id']] = product
dict_set(db, product) ==
    IF \E i \in 1..Len(db) : db[i].id = product.id
    THEN [i \in 1..Len(db) |-> IF db[i].id = product.id THEN product ELSE db[i]]
    ELSE Append(db, product)

\* del products_db[id]
RECURSIVE dict_del(_, _)
dict_del(db, id) ==
    IF db = <<>> THEN <<>>
    ELSE IF Head(db).id = id THEN dict_del(Tail(db), id)
    ELSE <<Head(db)>> \o dict_del(Tail(db), id)

\* the merged record keeps its own id
kept_id_of_merged(duplicate_group, merged_product) == merged_product.id

\* merged_product['id'] = duplicate_group[0]['id']
kept_id(duplicate_group, merged_product) == duplicate_group[1].id

\* for duplicate in duplicate_group[1:]: if in products_db: del
RECURSIVE remove_duplicates(_, _, _)
remove_duplicates(db, duplicate_group, k) ==
    IF k > Len(duplicate_group) THEN db
    ELSE remove_duplicates(dict_del(db, duplicate_group[k].id),
                           duplicate_group, k + 1)

\* the loop over duplicate_groups from the k-th group on; all_products is
\* the list of the records and a group is a list of indices into it
RECURSIVE merge_groups(_, _, _, _, _)
merge_groups(db, all_products, duplicate_groups, k, now) ==
    IF k > Len(duplicate_groups) THEN db
    ELSE LET duplicate_group ==
                 [m \in 1..Len(duplicate_groups[k]) |->
                     all_products[duplicate_groups[k][m]]]
             merged == merge_duplicates(duplicate_group, now).merged
             merged_product ==
                 Put(merged, "id", kept_id(duplicate_group, merged))
         IN merge_groups(
                remove_duplicates(dict_set(db, merged_product),
                                  duplicate_group, 2),
                all_products, duplicate_groups, k + 1, now)

\* the records of the catalogs that are deduplicated
DedupCatalogPool ==
    { [title |-> S_ab, brand |-> S_x, current_price |-> 16,
       specifications |-> [k \in {"color"} |-> S_ba]],
      [title |-> S_c_ab, brand |-> S_X_sp, current_price |-> 12],
      [title |-> S_c_ab, brand |-> S_X_sp, current_price |-> 12,
       data_quality_score |-> 90],
      [title |-> S_ab, brand |-> S_x, current_price |-> 9,
       specifications |-> EmptyDict],
      [title |-> S_abc, brand |-> S_x, current_price |-> 16,
       specifications |-> [k \in {"color", "size"} |-> S_ab]] }

\* execute_scraping_job: every record is stored under a new id
with_ids(products) ==
    [i \in 1..Len(products) |-> Put(products[i], "id", i)]

InitDeduplicate ==
    /\ pc = "catalog"
    /\ DeduplicatorIdle /\ CurateIdle /\ QualityIdle /\ ExtractIdle
    /\ NormalizeIdle /\ SearchIdle /\ MonitorIdle /\ RequestIdle
    /\ products_db \in {with_ids(s) : s \in SeqsUpTo(DedupCatalogPool, MaxProducts)}
    /\ price_changes = <<>>
    /\ pm_loops = <<>>
    /\ pm_starts = 0
    /\ pm_cycles = 0

\* POST /api/deduplicate-products
DeduplicateProducts ==
    /\ pc = "catalog"
    /\ pc' = "deduplicated"
    /\ fd_products' = products_db
    /\ fd_result' = find_duplicates(deduplicator, products_db)
    /\ \E now \in Clock :
          products_db' = merge_groups(products_db, products_db, fd_result', 1, now)
    /\ UNCHANGED <<deduplicator, merge_vars, curate_vars, quality_vars,
                   extract_vars, normalize_vars, search_vars, monitor_vars,
                   request_vars, price_changes, pm_loops, pm_starts, pm_cycles>>

NextDeduplicate == DeduplicateProducts

SpecDeduplicate == InitDeduplicate /\ [][NextDeduplicate]_vars

(***************************************************************************)
(* Claims about deduplicate_products (SpecDeduplicate).  fd_products is    *)
(* the catalog before the call and fd_result the groups found in it.       *)
(***************************************************************************)
DpWithId(db, id) == {i \in 1..Len(db) : db[i].id = id}

\* the records of the k-th group
DpMembers(k) == [m \in 1..Len(fd_result[k]) |-> fd_products[fd_result[k][m]]]

RECURSIVE DpRemoved(_)
DpRemoved(k) ==
    IF k > Len(fd_result) THEN 0
    ELSE (Len(fd_result[k]) - 1) + DpRemoved(k + 1)

\* C24: after deduplicate_products on a catalog with unique ids, exactly one
\* record with the id of each group's first member remains, which is the
\* merge of the group, the ids of the group's other members are gone, the records in no group are unchanged,
\* and the catalog has shrunk by the sum over the groups of (size - 1).
C24_OneRecordPerGroup ==
    pc = "deduplicated" =>
        /\ \A k \in 1..Len(fd_result) :
              /\ Cardinality(DpWithId(products_db, fd_products[fd_result[k][1]].id)) = 1
              /\ \E j \in 1..Len(products_db), now \in Clock :
                    products_db[j] =
                        Put(merge_duplicates(DpMembers(k), now).merged, "id",
                            fd_products[fd_result[k][1]].id)
              /\ \A m \in 2..Len(fd_result[k]) :
                    DpWithId(products_db, fd_products[fd_result[k][m]].id) = {}
        /\ \A i \in 1..Len(fd_products) :
              i \notin FdGrouped =>
                 \E j \in 1..Len(products_db) : products_db[j] = fd_products[i]
        /\ Len(products_db) = Len(fd_products) - DpRemoved(1)
        /\ Len(products_db) =
              Len(fd_products) - Cardinality(FdGrouped) + Len(fd_result)

\* a catalog of four records with a group of three, whose record of highest
\* quality is not the first, and a record in no group
C24_Witness ==
    /\ pc = "deduplicated"
    /\ Len(fd_products) = 4
    /\ Len(fd_result) = 1
    /\ Len(fd_result[1]) = 3
    /\ best_index(DpMembers(1)) # 1
    /\ Len(products_db) = 2

\* a catalog with two groups
C24_TwoGroupsWitness ==
    /\ pc = "deduplicated"
    /\ Len(fd_result) = 2
    /\ Len(products_db) = 2

(***************************************************************************)
(* main.py: curate_products and get_curated_products.  all_products holds  *)
(* the records of products_db themselves, so that the annotations made by  *)
(* apply_curation_rules are made in the catalog.  The handlers have no     *)
(* await: each runs as one step.                                           *)
(***************************************************************************)
\* the loop over curated_products from the k-th on: a record with
\* is_curated is stored under its id
RECURSIVE store_curated(_, _, _, _)
store_curated(db, products, curated_products, k) ==
    IF k > Len(curated_products) THEN db
    ELSE LET product == products[curated_products[k]]
         IN IF Get(product, "is_curated", FALSE)
            THEN store_curated(dict_set(db, product), products,
                               curated_products, k + 1)
            ELSE store_curated(db, products, curated_products, k + 1)

\* curate_products: the catalog after the call and what _evaluate_product
\* gave for each record; sent is curation_rules.get('rules', [])
curate_products(db, sent) ==
    LET run == apply_curation_rules(CurationEngine_init, db, {sent})
    IN [products_db |-> store_curated(run.products, run.products,
                                      run.curated_products, 1),
        evaluations |-> run.evaluations]

\* get_curated_products: the indices of the records with is_curated, by
\* descending curation_score (sort is stable), before pagination
RECURSIVE insert_by_score(_, _, _)
insert_by_score(db, listed, i) ==
    IF listed = <<>> THEN <<i>>
    ELSE IF RLt(Get(db[Head(listed)], "curation_score", RZero),
                Get(db[i], "curation_score", RZero))
    THEN <<i>> \o listed
    ELSE <<Head(listed)>> \o insert_by_score(db, Tail(listed), i)

RECURSIVE curated_from(_, _, _)
curated_from(db, k, listed) ==
    IF k > Len(db) THEN listed
    ELSE IF Get(db[k], "is_curated", FALSE)
    THEN curated_from(db, k + 1, insert_by_score(db, listed, k))
    ELSE curated_from(db, k + 1, listed)

get_curated_products(db, limit, offset) ==
    LET curated_products == curated_from(db, 1, <<>>)
    IN SubSeq(curated_products, offset + 1,
              Min(offset + limit, Len(curated_products)))

\* the rule lists that callers send: none, two include rules, these with a
\* flag rule, an exclude rule alone and after an include rule, a flag rule
SentPool ==
    { <<>>,
      <<RulePool_rating, RulePool_reviews>>,
      <<RulePool_rating, RulePool_reviews, RulePool_flag>>,
      <<RulePool_exclude>>,
      <<RulePool_rating, RulePool_exclude>>,
      <<RulePool_flag>> }

\* the records as the scrapers leave them: without annotations
ScrapedPool ==
    { [rating |-> 45, review_count |-> 50,
       availability |-> "in_stock", category |-> <<>>],
      [rating |-> 30, review_count |-> None,
       availability |-> "in_stock", category |-> S_xAdult],
      [rating |-> 40, review_count |-> 10,
       availability |-> "out_of_stock", category |-> S_mat] }

InitCurateCatalog ==
    /\ pc = "catalog"
    /\ DeduplicatorIdle /\ CurateIdle /\ QualityIdle /\ ExtractIdle
    /\ NormalizeIdle /\ SearchIdle /\ MonitorIdle /\ RequestIdle
    /\ products_db \in {with_ids(s) : s \in SeqsUpTo(ScrapedPool, MaxCurated)}
    /\ price_changes = <<>>
    /\ pm_loops = <<>>
    /\ pm_starts = 0
    /\ pm_cycles = 0

\* POST /api/curate-products
CurateProducts ==
    /\ pc \in {"catalog", "curated"}
    /\ pc' = "curated"
    /\ \E sent \in SentPool :
          LET done == curate_products(products_db, sent)
          IN /\ products_db' = done.products_db
             /\ cu_evaluations' = done.evaluations
    /\ UNCHANGED <<dedup_vars, merge_vars, curation_engine, cu_products,
                   cu_call, cu_rules, cu_curated, quality_vars, extract_vars, normalize_vars,
                   search_vars, monitor_vars, request_vars, price_changes,
                   pm_loops, pm_starts, pm_cycles>>

NextCurateCatalog == CurateProducts

SpecCurateCatalog == InitCurateCatalog /\ [][NextCurateCatalog]_vars

(***************************************************************************)
(* Claims about curate_products (SpecCurateCatalog).  cu_evaluations holds *)
(* what the most recent run gave for each record of the catalog.           *)
(***************************************************************************)
default_limit == 50

CcListed == Range(get_curated_products(products_db, default_limit, 0))

CcAnnotated(i, is_curated) ==
    /\ Get(products_db[i], "is_curated", {}) = is_curated
    /\ Get(products_db[i], "curation_score", {}) = cu_evaluations[i].score
    /\ Get(products_db[i], "curation_reason", {}) = cu_evaluations[i].reason

\* C25: after any sequence of runs of the curation over a record, the
\* record's is_curated, curation_score and curation_reason are those of the
\* most recent run; a record that the most recent run excludes does not
\* have is_curated = True and is not in the curated listing.
C25_AsStated ==
    pc = "curated" =>
        \A i \in 1..Len(products_db) :
            /\ cu_evaluations[i].action = "include" => CcAnnotated(i, TRUE)
            /\ cu_evaluations[i].action = "flag" => CcAnnotated(i, FALSE)
            /\ cu_evaluations[i].action = "exclude" =>
                  /\ Get(products_db[i], "is_curated", FALSE) # TRUE
                  /\ i \notin CcListed

\* a record that an earlier run included and the most recent run excluded
\* still has is_curated = True and is in the curated listing
C25_Witness ==
    /\ pc = "curated"
    /\ \E i \in 1..Len(products_db) :
          /\ cu_evaluations[i].action = "exclude"
          /\ Get(products_db[i], "is_curated", FALSE) = TRUE
          /\ i \in CcListed

\* what the code does: a record that the most recent run includes or flags
\* has that run's annotations, and a run that excludes a record leaves the
\* record as it was
C25_ExcludedKeepAnnotations ==
    [][\A i \in 1..Len(products_db) :
          /\ cu_evaluations'[i].action = "include" => CcAnnotated(i, TRUE)'
          /\ cu_evaluations'[i].action = "flag" => CcAnnotated(i, FALSE)'
          /\ cu_evaluations'[i].action = "exclude" =>
                products_db'[i] = products_db[i]]_vars

(***************************************************************************)
(* C26: merge_duplicates does not modify its input: after the call every   *)
(* member of the group, the member chosen as base included, has the        *)
(* additional_images, features and specifications it had before the call.  *)
(***************************************************************************)
MdSameContents(i) ==
    \A field \in SharedFields :
        Get(md_group[i], field, {}) = Get(md_call[i], field, {})

C26_AsStated ==
    pc = "merged" => \A i \in 1..Len(md_call) : MdSameContents(i)

\* a group is merged whose base has a list of images and another member
\* brings an image that the base does not have: after the call the base's
\* own list holds that image
C26_Witness ==
    /\ pc = "merged"
    /\ Len(md_call) >= 2
    /\ "additional_images" \in DOMAIN MdBase
    /\ \E item \in Range(md_group[MdBaseIndex].additional_images) :
          item \notin Range(MdBase.additional_images)
    /\ md_group[MdBaseIndex].additional_images = md_merged.additional_images

\* what the code does: the members other than the base are not modified,
\* and the base's three fields, where it has them, are those of the merged
\* record; its other fields are not modified
C26_OnlyBaseModified ==
    (pc = "merged" /\ Len(md_call) >= 2) =>
        /\ \A i \in MdOthers : md_group[i] = md_call[i]
        /\ DOMAIN md_group[MdBaseIndex] = DOMAIN MdBase
        /\ \A key \in DOMAIN MdBase :
              md_group[MdBaseIndex][key] =
                 IF key \in SharedFields THEN md_merged[key] ELSE MdBase[key]

\* the similarity of two records of the catalog meets the threshold
DpSimilar(i, j) ==
    is_duplicate(deduplicator,
                 calculate_similarity(deduplicator, products_db[i], products_db[j]))

\* C27: after one deduplication pass no two records that remain in the
\* catalog have a similarity >= similarity_threshold to each other.
C27_AsStated ==
    pc = "deduplicated" =>
        \A i \in 1..Len(products_db), j \in 1..Len(products_db) :
            i # j => ~DpSimilar(i, j)

\* a pass has merged a group, and the merged record and a record that was
\* in no group meet the threshold
C27_Witness ==
    /\ pc = "deduplicated"
    /\ \E i \in 1..Len(products_db), j \in 1..Len(products_db) :
          /\ i # j
          /\ "duplicate_count" \in DOMAIN products_db[i]
          /\ products_db[j] \in Range(fd_products)
          /\ DpSimilar(i, j)
          /\ DpSimilar(j, i)

(***************************************************************************)
(* C28: with the default rule set (apply_curation_rules called without     *)
(* rules) the rule exclude_adult_content excludes exactly the records      *)
(* whose category contains 'adult' or 'mature': no such record is returned *)
(* as included or flagged, and a record whose category contains neither is *)
(* never excluded by that rule.                                            *)
(***************************************************************************)
CuExcludedTerm(product) ==
    \/ InStr(S_adult, Lower(Get(product, "category", <<>>)))
    \/ InStr(S_mature, Lower(Get(product, "category", <<>>)))

CuExcludedByAdultRule(i) ==
    /\ cu_evaluations[i].action = "exclude"
    /\ cu_evaluations[i].reason = <<"Excluded by: ", "exclude_adult_content">>

C28_AsStated ==
    (pc = "curated" /\ cu_rules = {}) =>
        \A i \in 1..Len(cu_call) :
            /\ CuExcludedTerm(cu_call[i]) => i \notin Range(cu_curated)
            /\ ~CuExcludedTerm(cu_call[i]) => ~CuExcludedByAdultRule(i)

\* a run with the default rules over a record of an adult category, which
\* is returned, and a record of another category, which the rule excludes
C28_Witness ==
    /\ pc = "curated"
    /\ cu_rules = {}
    /\ \E i \in 1..Len(cu_call) :
          CuExcludedTerm(cu_call[i]) /\ i \in Range(cu_curated)
    /\ \E i \in 1..Len(cu_call) :
          ~CuExcludedTerm(cu_call[i]) /\ CuExcludedByAdultRule(i)

\* what the code does: with the default rules the rule excludes exactly the
\* records whose category contains no excluded term, and never a record
\* whose category contains one
C28_ExcludesTheOthers ==
    (pc = "curated" /\ cu_rules = {}) =>
        \A i \in 1..Len(cu_call) :
            CuExcludedByAdultRule(i) <=> ~CuExcludedTerm(cu_call[i])

(***************************************************************************)
(* The price monitoring under fair scheduling: a task that can take a step *)
(* takes it (the event loop resumes a task whose await is over), and a     *)
(* task that is due for a cycle again and again does run cycles, not only  *)
(* cycles that fail at cycle level.                                        *)
(***************************************************************************)
LoopStep(l) ==
    StartCycle(l) \/ CycleFails(l) \/ FetchReturns(l) \/ PauseOver(l)
        \/ SleepOver(l)

SpecMonitoringFair ==
    /\ InitMonitoringForever
    /\ [][NextMonitoring]_vars
    /\ WF_vars(StartPriceMonitoring)
    /\ \A l \in 1..MaxLoops : WF_vars(LoopStep(l)) /\ SF_vars(StartCycle(l))

\* the record is in the catalog, stale, with a url and a supported retailer
PmEligible(i) ==
    /\ i \in DOMAIN products_db
    /\ needs_update(products_db[i])
    /\ reaches_scraper(products_db[i])

\* a task awaits the scraper function for the record
PmFetching(i) ==
    \E l \in DOMAIN pm_loops :
        /\ pm_loops[l].at = "fetching"
        /\ pm_loops[l].products_to_update[pm_loops[l].index].index = i

\* C29: under fair repetition of the cycles every record that stays in the
\* catalog, stale, with a source url and a supported retailer is eventually
\* re-fetched, however many other stale records the catalog holds.
C29_AsStated ==
    \A i \in 1..MaxCatalog : PmEligible(i) ~> PmFetching(i)

\* a task is due for another cycle after a cycle that re-fetched 10 records,
\* every record is stale again, and the record after the first 10 has never
\* been re-fetched
C29_Witness ==
    /\ Len(products_db) > batch_cap
    /\ \E l \in DOMAIN pm_loops :
          /\ pm_loops[l].at = "due"
          /\ pm_loops[l].cycle = "completed"
          /\ pm_loops[l].refetched = batch_cap
    /\ \A i \in 1..Len(products_db) : needs_update(products_db[i])
    /\ PmEligible(batch_cap + 1)

\* what the code does: a stale record is eventually re-fetched when it is
\* among the first 10 records of the catalog
C29_FirstTenEventually ==
    \A i \in 1..batch_cap : PmEligible(i) ~> PmFetching(i)

(***************************************************************************)
(* C30: at most one price-monitoring loop is active over the catalog at    *)
(* any time, however many times start_price_monitoring is invoked, so that *)
(* no two cycles re-fetch and update the same record concurrently.         *)
(***************************************************************************)
PmAwaited(l) == pm_loops[l].products_to_update[pm_loops[l].index].index

C30_AsStated ==
    /\ Len(pm_loops) <= 1
    /\ \A l \in DOMAIN pm_loops, m \in DOMAIN pm_loops :
          (l # m /\ pm_loops[l].at = "fetching" /\ pm_loops[m].at = "fetching")
              => PmAwaited(l) # PmAwaited(m)

\* start_price_monitoring was invoked twice and the two tasks await the
\* re-fetch of the same record
C30_Witness ==
    /\ Len(pm_loops) = 2
    /\ pm_loops[1].at = "fetching"
    /\ pm_loops[2].at = "fetching"
    /\ PmAwaited(1) = PmAwaited(2)

\* one of two tasks awaits the re-fetch of a record that the other task has
\* updated since the first collected it, and that is not stale any more
C30_FreshRefetchWitness ==
    \E l \in DOMAIN pm_loops :
        /\ Len(pm_loops) = 2
        /\ pm_loops[l].at = "fetching"
        /\ ~needs_update(products_db[PmAwaited(l)])

\* what the code does: every invocation of start_price_monitoring adds a
\* loop, and no loop ever ends
C30_OneLoopPerInvocation ==
    [][/\ Len(pm_loops') >= Len(pm_loops)
       /\ pm_starts' < pm_starts => Len(pm_loops') = Len(pm_loops) + 1]_vars
=============================================================================
